---- MODULE Spec2Model ----
(***************************************************************************)
(* Position lifecycle and sell-decision engine of stock-manage-v2.         *)
(*                                                                         *)
(* One stock is followed: its portfolio_holdings row (at most one, the     *)
(* column stock_id is unique), its sell_signals rows, and the decision     *)
(* runs (scheduled Celery task, on-demand endpoint) that refresh the       *)
(* holding, walk the sell ladder and de-duplicate the fired signal.        *)
(*                                                                         *)
(* Numbers.  Prices are kept in micro-units: one dollar is PriceScale      *)
(* units, so that the weighted average of a few buys and 99% of a market   *)
(* price are integers.  The price value 0 stands for None (the code tests  *)
(* prices by truthiness).  A percentage is a pair <<num, den>>, den > 0,   *)
(* and the settings' percentages are in hundredths of a percent.  Scores   *)
(* are in tenths of a point, the combined score in hundredths.  Time is    *)
(* in minutes since 00:00 New York time of day 0, which is a Thursday.     *)
(***************************************************************************)
EXTENDS Integers, Sequences, FiniteSets, TLC

VARIABLES
    day,        \* New York calendar day of the clock
    slot,       \* index into DayMinutes: the instant of that day
    holding,    \* the portfolio_holdings row of the stock, or NoHolding
    signals,    \* the sell_signals rows of the stock
    lastRun,    \* what the last decision run returned to its caller
    nRuns,      \* number of decision runs so far
    hist,       \* history of the day counter (for the day-count properties)
    runs,       \* SpecConc: the local state of each overlapping decision run
    dIn,        \* SpecDecide: the inputs handed to the sell ladder
    dOut        \* SpecDecide: the ladder's decision

vars == <<day, slot, holding, signals, lastRun, nRuns, hist, runs, dIn, dOut>>

-----------------------------------------------------------------------------
(* Bounds of the model *)

MaxDay == 2
MaxQty == 2
MaxHigh == 2
MaxRuns == 3
MaxHeld == 6
PortfolioSize == 2
MaxExtra == 2

-----------------------------------------------------------------------------
(* Settings (hundredths of a percent) *)

SCALP_STOP_LOSS_PCT == -200
SCALP_TAKE_PROFIT_PCT == 300
SCALP_BREAKEVEN_TRIGGER_PCT == 150
SCALP_TRAIL_TRIGGER_PCT == 200
SCALP_TRAIL_PCT == 100
SCALP_MAX_HOLDING_DAYS == 5
STOP_LOSS_PCT == -500
TAKE_PROFIT_PCT == 1500
\* thresholds on scores, in tenths of a point (news) and hundredths (combined)
SWING_NEWS_COMBINED_THRESHOLD == 600
SWING_NEWS_ALONE_THRESHOLD == 700
SELL_THRESHOLD == 4000
\* weights, in percent
TECH_WEIGHT == 60
NEWS_WEIGHT == 40

\* market hours, minute of the New York day
MARKET_OPEN == 570
MARKET_CLOSE == 960
\* datetime.utcnow() is New York time plus this many minutes (EST)
UtcOffset == 300
DayLen == 1440
\* timedelta(hours=24), in minutes
DedupWindow == 1440

-----------------------------------------------------------------------------
(* Arithmetic helpers *)

Max(a, b) == IF a >= b THEN a ELSE b
Min(a, b) == IF a <= b THEN a ELSE b

RECURSIVE Fact(_)
Fact(n) == IF n <= 1 THEN 1 ELSE n * Fact(n - 1)

\* micro-units per dollar: divisible by 100 and by every quantity held
PriceScale == 100 * Fact(MaxQty)

\* n / d rounded to the nearest integer, ties to even (d > 0): Python's round()
RoundDiv(n, d) ==
    LET q == n \div d
        r == n - q * d
    IN  IF 2 * r < d THEN q
        ELSE IF 2 * r > d THEN q + 1
        ELSE IF q % 2 = 0 THEN q ELSE q + 1

Abs(x) == IF x < 0 THEN -x ELSE x

RECURSIVE Gcd(_, _)
Gcd(a, b) == IF b = 0 THEN a ELSE Gcd(b, a % b)

\* the percentage n / d (d > 0) in lowest terms, so that equal percentages
\* are equal pairs
Pct(n, d) ==
    LET g == Gcd(Abs(n), d)
    IN  <<n \div g, d \div g>>

\* a percentage <<num, den>> against a setting in hundredths of a percent
PctGE(p, bps) == p[1] * 100 >= bps * p[2]
PctLE(p, bps) == p[1] * 100 <= bps * p[2]
ZeroPct == <<0, 1>>

\* round(pnl_pct, 2): a whole number of hundredths of a percent
Round2(p) == Pct(RoundDiv(p[1] * 100, p[2]), 100)

-----------------------------------------------------------------------------
(* Clock and trading calendar *)

\* the instants of a day the model visits: 08:00, 10:00, 14:00 and 21:00
DayMinutes == <<480, 600, 840, 1260>>

Now == day * DayLen + DayMinutes[slot]

\* day 0 is a Thursday; weekday() is 0 for Monday
Weekday(d) == (d + 3) % 7

IsNyseTradingDay(d) == Weekday(d) < 5

IsMarketOpen ==
    /\ IsNyseTradingDay(day)
    /\ MARKET_OPEN <= DayMinutes[slot]
    /\ DayMinutes[slot] <= MARKET_CLOSE

\* datetime.now(ZoneInfo("America/New_York")).date()
NyToday == day

\* datetime.utcnow().date(): what last_updated_at.date() gives for a row
\* written now
UtcDate(t) == (t + UtcOffset) \div DayLen

-----------------------------------------------------------------------------
(* The holding row *)

NoHolding == [exists |-> FALSE]

\* market and order prices, in dollars: -2%, 0, +1.5%, +2% and +3% of 200
PriceLevels == {196, 200, 203, 204, 206}
Prices == {d * PriceScale : d \in PriceLevels}

NewHolding(price, qty, scalp, t) ==
    [exists |-> TRUE,
     is_scalp_trade |-> scalp,
     quantity |-> qty,
     avg_buy_price |-> price,
     total_invested |-> qty * price,
     current_price |-> 0,
     unrealized_pnl |-> 0,
     unrealized_pnl_pct |-> ZeroPct,
     peak_price |-> price,
     trailing_stop_active |-> FALSE,
     trailing_stop_price |-> 0,
     breakeven_locked |-> FALSE,
     trading_days_held |-> 0,
     last_updated_at |-> UtcDate(t)]

\* faulty variant: an additional buy initialises the protection fields again
BuyExistingReset(h, price, qty, t) ==
    LET new_qty == h.quantity + qty
    IN  [h EXCEPT !.avg_buy_price =
                      (h.avg_buy_price * h.quantity + qty * price) \div new_qty,
                  !.quantity = new_qty,
                  !.total_invested = h.total_invested + qty * price,
                  !.trailing_stop_active = FALSE,
                  !.breakeven_locked = FALSE,
                  !.last_updated_at = UtcDate(t)]

\* buy_stock on a symbol already held: the weighted average is recomputed
BuyExisting(h, price, qty, t) ==
    LET old_total == h.avg_buy_price * h.quantity
        total_amount == qty * price
        new_total == old_total + total_amount
        new_qty == h.quantity + qty
    IN  [h EXCEPT !.avg_buy_price = new_total \div new_qty,
                  !.quantity = new_qty,
                  !.total_invested = h.total_invested + total_amount,
                  !.last_updated_at = UtcDate(t)]

-----------------------------------------------------------------------------
(* PositionLifecycle: one refresh of one holding in update_prices.  obj is  *)
(* the row read in the session, data the dict taken by get_holdings.        *)

UnrealizedPnl(data, cp) == (cp - data.avg_buy_price) * data.quantity

UnrealizedPnlPct(data, cp) ==
    IF data.avg_buy_price > 0
    THEN Pct((cp - data.avg_buy_price) * 100, data.avg_buy_price)
    ELSE ZeroPct

NewPeak(obj, data, cp) ==
    LET prev_peak == IF obj.peak_price # 0 THEN obj.peak_price
                     ELSE data.avg_buy_price
    IN  Max(prev_peak, cp)

\* faulty variant: the lock is taken again at every refresh above the trigger
BreakevenFiresUnguarded(obj, pnl_pct) ==
    PctGE(pnl_pct, SCALP_BREAKEVEN_TRIGGER_PCT)

\* Stage 1: breakeven lock
BreakevenFires(obj, pnl_pct) ==
    /\ PctGE(pnl_pct, SCALP_BREAKEVEN_TRIGGER_PCT)
    /\ ~obj.breakeven_locked

\* Stage 2: trailing stop
TrailFires(pnl_pct) == PctGE(pnl_pct, SCALP_TRAIL_TRIGGER_PCT)

\* new_peak * (1 - SCALP_TRAIL_PCT / 100); a peak is a multiple of 100 units
NewTrail(new_peak) == ((new_peak \div 100) * (10000 - SCALP_TRAIL_PCT)) \div 100

\* faulty variant: the counter is incremented at every refresh in market hours
DayCountsEveryTick(obj) == IsMarketOpen

\* _increment_trading_days: whether the counter is incremented
DayCounts(obj) ==
    /\ IsMarketOpen
    /\ obj.last_updated_at < NyToday

\* faulty variant: the stages run whatever the strategy of the holding
RefreshedObjAnyStrategy(obj, data, cp) ==
    LET pnl_pct == UnrealizedPnlPct(data, cp)
        o1 == [obj EXCEPT !.current_price = cp,
                          !.unrealized_pnl = UnrealizedPnl(data, cp),
                          !.unrealized_pnl_pct = pnl_pct]
        new_peak == NewPeak(obj, data, cp)
        o2 == [o1 EXCEPT !.peak_price = new_peak]
        o3 == IF BreakevenFires(o2, pnl_pct)
              THEN [o2 EXCEPT !.breakeven_locked = TRUE,
                              !.trailing_stop_price = data.avg_buy_price]
              ELSE o2
        o4 == IF TrailFires(pnl_pct)
              THEN [o3 EXCEPT !.trailing_stop_active = TRUE,
                              !.trailing_stop_price =
                                  IF NewTrail(new_peak) > o3.trailing_stop_price
                                  THEN NewTrail(new_peak)
                                  ELSE o3.trailing_stop_price]
              ELSE o3
    IN  IF DayCounts(o4)
        THEN [o4 EXCEPT !.trading_days_held = o4.trading_days_held + 1]
        ELSE o4

\* faulty variant: the trailing stage runs before the breakeven stage
RefreshedObjTrailFirst(obj, data, cp) ==
    LET pnl_pct == UnrealizedPnlPct(data, cp)
        o1 == [obj EXCEPT !.current_price = cp,
                          !.unrealized_pnl = UnrealizedPnl(data, cp),
                          !.unrealized_pnl_pct = pnl_pct]
        new_peak == NewPeak(obj, data, cp)
        o2 == [o1 EXCEPT !.peak_price = new_peak]
        o3 == IF TrailFires(pnl_pct)
              THEN [o2 EXCEPT !.trailing_stop_active = TRUE,
                              !.trailing_stop_price =
                                  IF NewTrail(new_peak) > o2.trailing_stop_price
                                  THEN NewTrail(new_peak)
                                  ELSE o2.trailing_stop_price]
              ELSE o2
        o4 == IF BreakevenFires(o3, pnl_pct)
              THEN [o3 EXCEPT !.breakeven_locked = TRUE,
                              !.trailing_stop_price = data.avg_buy_price]
              ELSE o3
        o5 == IF DayCounts(o4)
              THEN [o4 EXCEPT !.trading_days_held = o4.trading_days_held + 1]
              ELSE o4
    IN  IF obj.is_scalp_trade THEN o5 ELSE o1

\* the row after the refresh, before the flush
RefreshedObj(obj, data, cp) ==
    LET pnl_pct == UnrealizedPnlPct(data, cp)
        o1 == [obj EXCEPT !.current_price = cp,
                          !.unrealized_pnl = UnrealizedPnl(data, cp),
                          !.unrealized_pnl_pct = pnl_pct]
        new_peak == NewPeak(obj, data, cp)
        o2 == [o1 EXCEPT !.peak_price = new_peak]
        o3 == IF BreakevenFires(o2, pnl_pct)
              THEN [o2 EXCEPT !.breakeven_locked = TRUE,
                              !.trailing_stop_price = data.avg_buy_price]
              ELSE o2
        o4 == IF TrailFires(pnl_pct)
              THEN [o3 EXCEPT !.trailing_stop_active = TRUE,
                              !.trailing_stop_price =
                                  IF NewTrail(new_peak) > o3.trailing_stop_price
                                  THEN NewTrail(new_peak)
                                  ELSE o3.trailing_stop_price]
              ELSE o3
        o5 == IF DayCounts(o4)
              THEN [o4 EXCEPT !.trading_days_held = o4.trading_days_held + 1]
              ELSE o4
    IN  IF obj.is_scalp_trade THEN o5 ELSE o1

\* the dict after the refresh: what the sell ladder reads
RefreshedData(obj, data, cp) ==
    LET pnl_pct == UnrealizedPnlPct(data, cp)
        cent == PriceScale \div 100
        d1 == [data EXCEPT !.current_price = cp,
                           !.unrealized_pnl =
                               RoundDiv(UnrealizedPnl(data, cp), cent) * cent,
                           !.unrealized_pnl_pct = Round2(pnl_pct)]
        new_peak == NewPeak(obj, data, cp)
        d2 == [d1 EXCEPT !.peak_price = new_peak]
        locks == BreakevenFires(obj, pnl_pct)
        d3 == IF locks
              THEN [d2 EXCEPT !.breakeven_locked = TRUE,
                              !.trailing_stop_price = data.avg_buy_price]
              ELSE d2
        existing_trail == IF locks THEN data.avg_buy_price
                          ELSE obj.trailing_stop_price
        d4 == IF TrailFires(pnl_pct)
              THEN [d3 EXCEPT !.trailing_stop_active = TRUE,
                              !.trailing_stop_price =
                                  IF NewTrail(new_peak) > existing_trail
                                  THEN NewTrail(new_peak)
                                  ELSE d3.trailing_stop_price]
              ELSE d3
        d5 == IF DayCounts(obj)
              THEN [d4 EXCEPT !.trading_days_held = obj.trading_days_held + 1]
              ELSE d4
    IN  IF obj.is_scalp_trade THEN d5 ELSE d1

\* the columns of the row an UPDATE is emitted for: those whose value changed
ChangedColumns(old, new) ==
    {c \in {"current_price", "unrealized_pnl", "peak_price",
            "trailing_stop_active", "trailing_stop_price",
            "breakeven_locked", "trading_days_held", "unrealized_pnl_pct"} :
        old[c] # new[c]}

\* the flush: the changed columns are written over the stored row, and the
\* column last_updated_at (onupdate=datetime.utcnow) with them
Flush(stored, old, new, t) ==
    LET cols == ChangedColumns(old, new)
    IN  IF cols = {} \/ ~stored.exists THEN stored
        ELSE [c \in DOMAIN stored |->
                 IF c \in cols THEN new[c]
                 ELSE IF c = "last_updated_at" THEN UtcDate(t)
                 ELSE stored[c]]

-----------------------------------------------------------------------------
(* SellDecisionEngine: the two ladders of check_sell_signals *)

\* faulty variant: the time stop is not guarded by "not signal_type"
ScalpSignalTimeStopFirst(data) ==
    LET pnl_pct == data.unrealized_pnl_pct
        cp == data.current_price
        tsp == data.trailing_stop_price
    IN  IF data.trading_days_held >= SCALP_MAX_HOLDING_DAYS THEN "TIME_STOP"
        ELSE IF PctLE(pnl_pct, SCALP_STOP_LOSS_PCT) THEN "STOP_LOSS"
        ELSE IF PctGE(pnl_pct, SCALP_TAKE_PROFIT_PCT) THEN "TAKE_PROFIT"
        ELSE IF data.trailing_stop_active /\ tsp # 0 /\ cp # 0 /\ cp <= tsp
             THEN "TRAILING_STOP"
        ELSE IF data.breakeven_locked /\ tsp # 0 /\ cp # 0 /\ cp <= tsp
             THEN "BREAKEVEN_STOP"
        ELSE "HOLD"

ScalpSignal(data) ==
    LET pnl_pct == data.unrealized_pnl_pct
        cp == data.current_price
        tsp == data.trailing_stop_price
        s1 == IF PctLE(pnl_pct, SCALP_STOP_LOSS_PCT) THEN "STOP_LOSS" ELSE "NONE"
        s2 == IF s1 = "NONE" /\ PctGE(pnl_pct, SCALP_TAKE_PROFIT_PCT)
              THEN "TAKE_PROFIT" ELSE s1
        s3 == IF s2 = "NONE" /\ data.trailing_stop_active /\ tsp # 0 /\ cp # 0
                 /\ cp <= tsp
              THEN "TRAILING_STOP" ELSE s2
        s4 == IF s3 = "NONE" /\ data.breakeven_locked /\ tsp # 0 /\ cp # 0
                 /\ ~data.trailing_stop_active /\ cp <= tsp
              THEN "BREAKEVEN_STOP" ELSE s3
        s5 == IF s4 = "NONE" /\ data.trading_days_held >= SCALP_MAX_HOLDING_DAYS
              THEN "TIME_STOP" ELSE s4
    IN  IF s5 = "NONE" THEN "HOLD" ELSE s5

Clamp(x, lo, hi) == Min(hi, Max(lo, x))

\* faulty variant: the two weights are exchanged
CombinedScoreSwapped(tech_score, news_score) ==
    LET combined == NEWS_WEIGHT * tech_score + TECH_WEIGHT * news_score
    IN  RoundDiv(Clamp(combined, 0, 100000), 10)

\* calculate_combined_score: scores in tenths of a point, result in hundredths
CombinedScore(tech_score, news_score) ==
    LET combined == TECH_WEIGHT * tech_score + NEWS_WEIGHT * news_score
    IN  RoundDiv(Clamp(combined, 0, 100000), 10)

\* max(0, 100 - news_sell_score)
NewsScoreForCombined(news_sell_score) == Max(0, 1000 - news_sell_score)

\* faulty variant: the technical rule asks for more than two HIGH signals
SwingSignalOffByOne(data, high, news_sell_score, tech_score) ==
    LET pnl_pct == data.unrealized_pnl_pct
        combined_score ==
            CombinedScore(tech_score, NewsScoreForCombined(news_sell_score))
    IN  IF PctLE(pnl_pct, STOP_LOSS_PCT) THEN "STOP_LOSS"
        ELSE IF PctGE(pnl_pct, TAKE_PROFIT_PCT) THEN "TAKE_PROFIT"
        ELSE IF high > 2 THEN "SELL"
        ELSE IF high > 0 /\ news_sell_score >= SWING_NEWS_COMBINED_THRESHOLD
             THEN "SELL"
        ELSE IF news_sell_score >= SWING_NEWS_ALONE_THRESHOLD THEN "SELL"
        ELSE IF combined_score < SELL_THRESHOLD THEN "SELL"
        ELSE "HOLD"

SwingSignal(data, high, news_sell_score, tech_score) ==
    LET pnl_pct == data.unrealized_pnl_pct
        combined_score ==
            CombinedScore(tech_score, NewsScoreForCombined(news_sell_score))
        s2 == IF PctLE(pnl_pct, STOP_LOSS_PCT) THEN "STOP_LOSS"
              ELSE IF PctGE(pnl_pct, TAKE_PROFIT_PCT) THEN "TAKE_PROFIT"
              ELSE "NONE"
        s3 == IF s2 = "NONE" /\ high >= 2 THEN "SELL" ELSE s2
        s4 == IF s3 = "NONE" /\ high > 0
                 /\ news_sell_score >= SWING_NEWS_COMBINED_THRESHOLD
              THEN "SELL" ELSE s3
        s5 == IF s4 = "NONE" /\ news_sell_score >= SWING_NEWS_ALONE_THRESHOLD
              THEN "SELL" ELSE s4
        s6 == IF s5 = "NONE" /\ combined_score < SELL_THRESHOLD
              THEN "SELL" ELSE s5
    IN  IF s6 = "NONE" THEN "HOLD" ELSE s6

SellSignalOf(data, high, news_sell_score, tech_score) ==
    IF data.is_scalp_trade THEN ScalpSignal(data)
    ELSE SwingSignal(data, high, news_sell_score, tech_score)

-----------------------------------------------------------------------------
(* 24-hour de-duplication *)

\* faulty variant: the query compares signal_at with now instead of the cutoff
DupRowsNoCutoff(rows, signal_type, t) ==
    {r \in rows : r.signal_type = signal_type /\ r.signal_at >= t}

\* the rows the dup_check query selects
DupRows(rows, signal_type, t) ==
    {r \in rows : r.signal_type = signal_type /\ r.signal_at >= t - DedupWindow}

\* the row a run adds; n tells apart rows of one type written at one instant
NewSignalRow(rows, signal_type, t) ==
    [signal_type |-> signal_type, signal_at |-> t,
     n |-> 1 + Cardinality({r \in rows : r.signal_type = signal_type
                                          /\ r.signal_at = t})]

\* faulty variant: the signals collected before the exception are still returned
OrchestratorResultLeaky(raised, sell_signals) ==
    [signals |-> sell_signals, error |-> raised]

\* analyze_portfolio_for_sells: what the caller gets from a run that collected
\* sell_signals and ended with or without an exception
OrchestratorResult(raised, sell_signals) ==
    IF raised THEN [signals |-> {}, error |-> TRUE]
    ELSE [signals |-> sell_signals, error |-> FALSE]

-----------------------------------------------------------------------------
(* Inputs of a decision run *)

\* fetch_current_price: a price, or 0 for None / an exception
FetchedPrices == Prices \cup {0}

\* number of HIGH bearish signals of the technical analysis
HighCounts == 0 .. MaxHigh
\* sell_score of the news analysis, 25.0 being the fallback
NewsSellScores == {250, 600, 700}
TechScores == {100, 800}

\* where the database fails in the run: nowhere, at the dup_check query, at
\* the commit of the new sell_signals row
Faults == {"none", "query", "commit"}

NoRun ==
    [skipped |-> FALSE, decision |-> "NONE", prior |-> 0, after |-> 0,
     fault |-> "none", signals |-> {}, error |-> FALSE, price |-> 0]

\* bought: the New York day of the purchase; of the current day: incs, the
\* increments of trading_days_held, and openRefreshes, the successful
\* refreshes of the scalp holding while the market was open; incClosed: an
\* increment happened while the market was closed
NoHist == [bought |-> 0, incs |-> 0, incClosed |-> FALSE, openRefreshes |-> 0]

-----------------------------------------------------------------------------
(* check_sell_signals as one sequential run on the stored state *)

\* get_holdings: the dict of the row
Snapshot(h) == h

RunOutcome(h, rows, p, high, news_sell_score, tech_score, fault) ==
    LET data0 == Snapshot(h)
        refreshed == p # 0
        obj1 == IF refreshed THEN RefreshedObj(h, data0, p) ELSE h
        data1 == IF refreshed THEN RefreshedData(h, data0, p) ELSE data0
        stored1 == Flush(h, h, obj1, Now)
        decision == SellSignalOf(data1, high, news_sell_score, tech_score)
        fired == decision # "HOLD"
        queryRaises == fired /\ fault = "query"
        dups == DupRows(rows, decision, Now)
        adds == fired /\ ~queryRaises /\ dups = {}
        commitRaises == ~queryRaises /\ fault = "commit"
        raised == queryRaises \/ commitRaises
        rows1 == IF adds /\ ~raised
                 THEN rows \cup {NewSignalRow(rows, decision, Now)}
                 ELSE rows
        res == OrchestratorResult(raised, IF adds THEN {decision} ELSE {})
    IN  [holding |-> stored1,
         signals |-> rows1,
         refreshed |-> refreshed,
         result |-> [skipped |-> FALSE, decision |-> decision,
                     prior |-> Cardinality(dups),
                     after |-> Cardinality(DupRows(rows1, decision, Now)),
                     fault |-> IF queryRaises THEN "query"
                               ELSE IF commitRaises THEN "commit" ELSE "none",
                     signals |-> res.signals, error |-> res.error,
                     price |-> p]]

\* the day-counter history after a run that took the row from h to h1
HistAfter(h, h1, refreshed) ==
    LET inc == h1.trading_days_held - h.trading_days_held
    IN  [hist EXCEPT !.incs = @ + inc,
                     !.incClosed = @ \/ (inc > 0 /\ ~IsMarketOpen),
                     !.openRefreshes =
                         IF refreshed /\ IsMarketOpen /\ h.is_scalp_trade
                         THEN @ + 1 ELSE @]

\* the inputs of the swing ladder: <<HIGH signals, sell_score, tech_score>>;
\* a scalp holding's decision reads none of them
SwingInputs == HighCounts \X NewsSellScores \X TechScores
NeutralInputs == {<<0, 250, 500>>}

DecisionRun(force, prices, faults, inputs) ==
    /\ nRuns < MaxRuns
    /\ nRuns' = nRuns + 1
    /\ IF ~force /\ ~IsMarketOpen
       THEN /\ lastRun' = [NoRun EXCEPT !.skipped = TRUE]
            /\ UNCHANGED <<holding, signals, hist>>
       ELSE IF ~holding.exists
       THEN /\ lastRun' = NoRun
            /\ UNCHANGED <<holding, signals, hist>>
       ELSE \E p \in prices, fault \in faults,
               in \in (IF holding.is_scalp_trade THEN NeutralInputs ELSE inputs) :
               \E out \in {RunOutcome(holding, signals, p, in[1], in[2], in[3],
                                      fault)} :
                   /\ holding' = out.holding
                   /\ signals' = out.signals
                   /\ lastRun' = out.result
                   /\ hist' = HistAfter(holding, out.holding, out.refreshed)

\* run_sell_analysis, every 10 minutes from Celery beat
ScheduledRun(prices, faults, inputs) ==
    /\ DecisionRun(FALSE, prices, faults, inputs)
    /\ UNCHANGED <<day, slot, runs, dIn, dOut>>

\* GET /sell-signals: analyze_portfolio_for_sells(force=True)
OnDemandRun(prices, faults, inputs) ==
    /\ DecisionRun(TRUE, prices, faults, inputs)
    /\ UNCHANGED <<day, slot, runs, dIn, dOut>>

\* POST /portfolio/buy
BuyStock(prices) ==
    \E price \in prices, qty \in 1 .. MaxQty, scalp \in BOOLEAN :
        /\ IF holding.exists
           THEN /\ holding.quantity + qty <= MaxQty
                /\ holding' = BuyExisting(holding, price, qty, Now)
                /\ hist' = hist
           ELSE /\ holding' = NewHolding(price, qty, scalp, Now)
                /\ hist' = [NoHist EXCEPT !.bought = day]
        /\ UNCHANGED <<day, slot, signals, lastRun, nRuns, runs, dIn, dOut>>

\* DELETE /portfolio/{ticker}
SellStock ==
    /\ holding.exists
    /\ holding' = NoHolding
    /\ hist' = NoHist
    /\ UNCHANGED <<day, slot, signals, lastRun, nRuns, runs, dIn, dOut>>

\* time passes to the next instant
AdvanceClock ==
    /\ IF slot < Len(DayMinutes)
       THEN /\ slot' = slot + 1
            /\ day' = day
            /\ hist' = hist
       ELSE /\ day < MaxDay
            /\ slot' = 1
            /\ day' = day + 1
            /\ hist' = [hist EXCEPT !.incs = 0, !.openRefreshes = 0]
    /\ UNCHANGED <<holding, signals, lastRun, nRuns, runs, dIn, dOut>>

InitAt(d, s) ==
    /\ day = d
    /\ slot = s
    /\ holding = NoHolding
    /\ signals = {}
    /\ lastRun = NoRun
    /\ nRuns = 0
    /\ hist = NoHist
    /\ runs = <<>>
    /\ dIn = <<>>
    /\ dOut = "NONE"

-----------------------------------------------------------------------------
(* Spec: the lifecycle of a holding under refreshes at every price, buys    *)
(* and sells, during one market session.                                    *)

Init == InitAt(0, 2)

\* the analysis inputs of a run: nothing alarming, or MaxHigh HIGH signals
LifecycleInputs == NeutralInputs \cup {<<MaxHigh, 250, 800>>}

\* the prices of the buy orders
BuyPrices == {200 * PriceScale, 204 * PriceScale}

Next ==
    \/ ScheduledRun(FetchedPrices, {"none"}, LifecycleInputs)
    \/ OnDemandRun(FetchedPrices, {"none"}, LifecycleInputs)
    \/ BuyStock(BuyPrices)
    \/ SellStock

Spec == Init /\ [][Next]_vars

-----------------------------------------------------------------------------
(* SpecDays: the day counter over the calendar, with refreshes, buys and    *)
(* sells at every instant.                                                  *)

DayPrices == {200 * PriceScale, 204 * PriceScale}

InitDays == InitAt(0, 1)

NextDays ==
    \/ ScheduledRun(DayPrices \cup {0}, {"none"}, NeutralInputs)
    \/ OnDemandRun(DayPrices \cup {0}, {"none"}, NeutralInputs)
    \/ BuyStock(DayPrices)
    \/ SellStock
    \/ AdvanceClock

SpecDays == InitDays /\ [][NextDays]_vars

-----------------------------------------------------------------------------
(* SpecDedup: decision runs that fire signals, with database faults, over   *)
(* the calendar.                                                            *)

DedupPrices == {196 * PriceScale, 206 * PriceScale}

\* one scalp holding, bought at 200 before the open of day 0
InitDedup ==
    /\ day = 0
    /\ slot = 1
    /\ holding = NewHolding(200 * PriceScale, 1, TRUE, 0)
    /\ signals = {}
    /\ lastRun = NoRun
    /\ nRuns = 0
    /\ hist = NoHist
    /\ runs = <<>>
    /\ dIn = <<>>
    /\ dOut = "NONE"

NextDedup ==
    \/ ScheduledRun(DedupPrices, Faults, NeutralInputs)
    \/ OnDemandRun(DedupPrices, Faults, NeutralInputs)
    \/ AdvanceClock

SpecDedup == InitDedup /\ [][NextDedup]_vars

-----------------------------------------------------------------------------
(* SpecDecide: the sell ladder as a function of what a run hands to it.     *)
(* The inputs are the dicts a run can hold: a stop price exactly when the   *)
(* breakeven lock was taken, trailing only after the lock, and no current   *)
(* price only for a holding that was never refreshed.                       *)

DecideAvg == 200 * PriceScale
DecidePrices == {d * PriceScale : d \in {0, 190, 196, 199, 200, 204, 206, 230}}
DecideStops == {d * PriceScale : d \in {0, 198, 200, 205}}

DecideData(scalp, cp, tsp, tsa, bl, tdh) ==
    [exists |-> TRUE,
     is_scalp_trade |-> scalp,
     quantity |-> 1,
     avg_buy_price |-> DecideAvg,
     total_invested |-> DecideAvg,
     current_price |-> cp,
     unrealized_pnl |-> IF cp = 0 THEN 0 ELSE cp - DecideAvg,
     unrealized_pnl_pct |->
         IF cp = 0 THEN ZeroPct
         ELSE Round2(Pct((cp - DecideAvg) * 100, DecideAvg)),
     peak_price |-> Max(cp, DecideAvg),
     trailing_stop_active |-> tsa,
     trailing_stop_price |-> tsp,
     breakeven_locked |-> bl,
     trading_days_held |-> tdh,
     last_updated_at |-> 0]

DecideInputs ==
    {[data |-> DecideData(TRUE, cp, tsp, tsa, bl, tdh),
      high |-> 0, news |-> 250, tech |-> 500] :
        cp \in DecidePrices, tsp \in DecideStops,
        tsa \in BOOLEAN, bl \in BOOLEAN, tdh \in 0 .. MaxHeld}
    \cup
    {[data |-> DecideData(FALSE, cp, 0, FALSE, FALSE, 0),
      high |-> in[1], news |-> in[2], tech |-> in[3]] :
        cp \in DecidePrices, in \in SwingInputs}

CanHold(in) ==
    LET d == in.data
    IN  /\ d.trailing_stop_active => d.breakeven_locked
        /\ d.breakeven_locked <=> d.trailing_stop_price # 0
        /\ d.current_price = 0 => ~d.breakeven_locked

InitDecide ==
    /\ day = 0
    /\ slot = 2
    /\ holding = NoHolding
    /\ signals = {}
    /\ lastRun = NoRun
    /\ nRuns = 0
    /\ hist = NoHist
    /\ runs = <<>>
    /\ dIn \in {in \in DecideInputs : CanHold(in)}
    /\ dOut = "NONE"

Decide ==
    /\ dOut = "NONE"
    /\ dOut' = SellSignalOf(dIn.data, dIn.high, dIn.news, dIn.tech)
    /\ UNCHANGED <<day, slot, holding, signals, lastRun, nRuns, hist, runs, dIn>>

NextDecide == Decide

SpecDecide == InitDecide /\ [][NextDecide]_vars

-----------------------------------------------------------------------------
(* SpecConc: two decision runs on the same holding that overlap (the        *)
(* scheduled task in the Celery worker and the on-demand request in the API *)
(* process, or two requests interleaved at their awaits).  Each run is the  *)
(* sequence of its database round trips.                                    *)

RunIds == {1, 2}

IdleRun ==
    [pc |-> "idle", price |-> 0, data |-> NoHolding, old |-> NoHolding,
     new |-> NoHolding, decision |-> "NONE", result |-> {}]

\* get_holdings and the price fetch of update_prices
GetHoldings(r, prices) ==
    /\ runs[r].pc = "idle"
    /\ holding.exists
    /\ \E p \in prices :
           runs' = [runs EXCEPT ![r] = [@ EXCEPT !.pc = "fetched",
                                                 !.price = p,
                                                 !.data = Snapshot(holding)]]
    /\ UNCHANGED <<day, slot, holding, signals, lastRun, nRuns, hist, dIn, dOut>>

\* update_prices: the row is selected in the run's session and refreshed
ReadRow(r) ==
    /\ runs[r].pc = "fetched"
    /\ LET me == runs[r]
           refreshed == me.price # 0
       IN  runs' = [runs EXCEPT ![r] =
               [me EXCEPT !.pc = "dirty",
                          !.old = holding,
                          !.new = IF refreshed
                                  THEN RefreshedObj(holding, me.data, me.price)
                                  ELSE holding,
                          !.data = IF refreshed
                                   THEN RefreshedData(holding, me.data, me.price)
                                   ELSE me.data]]
    /\ UNCHANGED <<day, slot, holding, signals, lastRun, nRuns, hist, dIn, dOut>>

\* update_prices: session.commit() flushes the changed columns
CommitPrices(r) ==
    /\ runs[r].pc = "dirty"
    /\ holding' = Flush(holding, runs[r].old, runs[r].new, Now)
    /\ runs' = [runs EXCEPT ![r] = [@ EXCEPT !.pc = "updated"]]
    /\ UNCHANGED <<day, slot, signals, lastRun, nRuns, hist, dIn, dOut>>

\* check_sell_signals: the ladder and the dup_check query
DupCheck(r) ==
    /\ runs[r].pc = "updated"
    /\ LET me == runs[r]
           decision == SellSignalOf(me.data, 0, 250, 500)
           found == DupRows(signals, decision, Now) # {}
       IN  runs' = [runs EXCEPT ![r] =
               [me EXCEPT !.pc = IF decision = "HOLD" \/ found
                                 THEN "done" ELSE "pending",
                          !.decision = decision]]
    /\ UNCHANGED <<day, slot, holding, signals, lastRun, nRuns, hist, dIn, dOut>>

\* check_sell_signals: session.commit() inserts the row; the signal is returned
CommitSignal(r) ==
    /\ runs[r].pc = "pending"
    /\ signals' = signals \cup {NewSignalRow(signals, runs[r].decision, Now)}
    /\ runs' = [runs EXCEPT ![r] =
           [@ EXCEPT !.pc = "done",
                     !.result =
                         OrchestratorResult(FALSE, {runs[r].decision}).signals]]
    /\ UNCHANGED <<day, slot, holding, lastRun, nRuns, hist, dIn, dOut>>

InitConc ==
    /\ day = 0
    /\ slot = 2
    /\ holding = NewHolding(200 * PriceScale, 1, TRUE, 0)
    /\ signals = {}
    /\ lastRun = NoRun
    /\ nRuns = 0
    /\ hist = NoHist
    /\ runs = [r \in RunIds |-> IdleRun]
    /\ dIn = <<>>
    /\ dOut = "NONE"

NextConc ==
    \E r \in RunIds :
        \/ GetHoldings(r, FetchedPrices)
        \/ ReadRow(r)
        \/ CommitPrices(r)
        \/ DupCheck(r)
        \/ CommitSignal(r)

SpecConc == InitConc /\ [][NextConc]_vars

-----------------------------------------------------------------------------
(* Technical scoring (technical_indicators.py).  Scores are in thousandths  *)
(* of a point; RSI is in tenths; MACD values are in units of 0.0001; the    *)
(* Bollinger position and the volume ratio are in hundredths; moving        *)
(* averages are prices in cents, 0 standing for None.                       *)

\* "rsi is None"
NoRsi == -1

\* _rsi_score
RsiScore(rsi) ==
    IF rsi = NoRsi THEN 12500
    ELSE IF rsi < 300 THEN 18000 + Min(10000, rsi * 40)
    ELSE IF rsi < 400 THEN 18000 + (rsi - 300) * 50
    ELSE IF rsi < 500 THEN 23000 - (rsi - 400) * 30
    ELSE IF rsi < 600 THEN 20000 - (rsi - 500) * 30
    ELSE IF rsi < 700 THEN 17000 - (rsi - 600) * 40
    ELSE Max(3000, 13000 - (rsi - 700) * 50)

\* the dict of calculate_macd; nan: the indicator has no value yet (fewer
\* than 34 bars), every comparison with it is false
MacdData(macd, signal, macd_prev, signal_prev) ==
    [nan |-> FALSE, macd |-> macd, signal |-> signal, hist |-> macd - signal,
     macd_prev |-> macd_prev, signal_prev |-> signal_prev]

MacdNan ==
    [nan |-> TRUE, macd |-> 0, signal |-> 0, hist |-> 0,
     macd_prev |-> 0, signal_prev |-> 0]

\* the failure dict of calculate_macd
MacdZero == MacdData(0, 0, 0, 0)

DeadCross(m) ==
    ~m.nan /\ m.macd_prev >= m.signal_prev /\ m.macd < m.signal

\* _macd_score; with NaN values the last line is max(3.0, nan) = 3.0
MacdScore(m) ==
    IF m.nan THEN 3000
    ELSE IF m.macd_prev <= m.signal_prev /\ m.macd > m.signal THEN 25000
    ELSE IF DeadCross(m) THEN 3000
    ELSE IF m.macd > 0 /\ m.signal > 0
    THEN LET max_val == Max(Max(Abs(m.macd), Abs(m.signal)), 1)
         IN  17000 + Min(8000, (8000 * Abs(m.hist)) \div max_val)
    ELSE IF m.macd > m.signal
    THEN 10000 + Min(4000, (4000 * Abs(m.hist)) \div (Abs(m.signal) + 1))
    ELSE Max(3000, 8000 - (5000 * Abs(m.hist)) \div (Abs(m.signal) + 1))

\* _bb_score: 20 * (1 - position^2), clamped
BbScore(position) ==
    Max(0, Min(20000, 20000 - 2 * position * position))

MaData(current, ma20, ma50, ma200) ==
    [current |-> current, ma20 |-> ma20, ma50 |-> ma50, ma200 |-> ma200]

\* _ma_score
MaScore(ma) ==
    IF ma.current = 0 \/ ma.ma20 = 0 THEN 10000
    ELSE LET b1 == IF ma.current > ma.ma20
                   THEN Min(8000, (160000 * (ma.current - ma.ma20)) \div ma.ma20)
                   ELSE 0
             b2 == IF ma.ma50 # 0 /\ ma.ma20 > ma.ma50
                   THEN Min(5000, (500000 * (ma.ma20 - ma.ma50))
                                      \div (3 * ma.ma50))
                   ELSE 0
             b3 == IF ma.ma200 # 0 /\ ma.ma50 # 0 /\ ma.ma50 > ma.ma200
                   THEN Min(7000, (140000 * (ma.ma50 - ma.ma200)) \div ma.ma200)
                   ELSE 0
         IN  Min(20000, 2000 + b1 + b2 + b3)

\* np.log2 of a ratio in [1, 2), in 1024ths: ten binary digits by squaring
RECURSIVE Log2Digits(_, _, _)
Log2Digits(x, k, acc) ==
    IF k = 0 THEN acc
    ELSE LET y == (x * x) \div 16384
         IN  IF y >= 32768 THEN Log2Digits(y \div 2, k - 1, 2 * acc + 1)
             ELSE Log2Digits(y, k - 1, 2 * acc)

\* _volume_score
VolumeScore(ratio) ==
    IF ratio <= 100 THEN 2000
    ELSE IF ratio >= 200 THEN 10000
    ELSE Min(10000,
             2000 + (8000 * Log2Digits((ratio * 16384) \div 100, 10, 0))
                        \div 1024)

\* the penalties of calculate_tech_score
MacdPenalty(m) ==
    IF DeadCross(m) THEN 8000
    ELSE IF ~m.nan /\ m.macd < m.signal
    THEN Min(6000, (8000 * Abs(m.hist)) \div (Abs(m.signal) + 10))
    ELSE 0

BelowMaPenalty(current, ma, cap, slope) ==
    IF current # 0 /\ ma # 0 /\ 100 * current < 99 * ma
    THEN Min(cap, (slope * (ma - current)) \div ma)
    ELSE 0

\* faulty variant: the sum of the sub-scores and penalties is returned as is
TechScoreUnclamped(bars, raises, rsi, m, position, ma, ratio) ==
    IF bars < 20 THEN 5000
    ELSE IF raises THEN 5000
    ELSE RoundDiv(RsiScore(rsi) + MacdScore(m) + BbScore(position)
                  + MaScore(ma) + VolumeScore(ratio)
                  - MacdPenalty(m)
                  - BelowMaPenalty(ma.current, ma.ma20, 6000, 120000)
                  - BelowMaPenalty(ma.current, ma.ma50, 10000, 150000), 10)

\* calculate_tech_score, in hundredths of a point.  bars = 0: df is None or
\* empty; raises: a computation inside the try block raises
TechScore(bars, raises, rsi, m, position, ma, ratio) ==
    IF bars < 20 THEN 5000
    ELSE IF raises THEN 5000
    ELSE LET score == RsiScore(rsi) + MacdScore(m) + BbScore(position)
                      + MaScore(ma) + VolumeScore(ratio)
                      - MacdPenalty(m)
                      - BelowMaPenalty(ma.current, ma.ma20, 6000, 120000)
                      - BelowMaPenalty(ma.current, ma.ma50, 10000, 150000)
         IN  RoundDiv(Min(100000, Max(0, score)), 10)

\* calculate_scalp_entry_score below 55 bars and on an exception
EntryZero == [entry_score |-> 0, all_conditions_pass |-> FALSE]

\* calculate_scalp_entry_score: entry_score in hundredths of a point.
\* hist_today, hist_yesterday: MACD histogram of the last two bars;
\* two_day: the histogram of the bar before also improved
ScalpEntryScore(bars, raises, rsi, hist_today, hist_yesterday, two_day, current_price, ma20, ma50, volume_ratio) ==
    IF bars < 55 \/ raises THEN EntryZero
    ELSE LET rsi_ok == rsi # NoRsi /\ 450 <= rsi /\ rsi <= 680
             macd_positive == hist_today > 0
             macd_improving == hist_today > hist_yesterday
             above_ma20 == ma20 # 0 /\ current_price > ma20
             above_ma50 == ma50 # 0 /\ current_price > ma50
             volume_ok == volume_ratio >= 130
             rsi_score == IF rsi_ok THEN 15000 + ((rsi - 450) * 1500) \div 23
                          ELSE 0
             norm10 == Min(10000, (50000 * Abs(hist_today))
                                      \div (Abs(current_price) + 5))
             macd_score ==
                 IF ~macd_positive THEN 0
                 ELSE IF ~macd_improving THEN 10000
                 ELSE Min(35000, 20000 + norm10 + IF two_day THEN 5000 ELSE 0)
             ma_align_score ==
                 IF ~above_ma20 \/ ~above_ma50 THEN 0
                 ELSE Min(25000,
                          12000
                          + Min(8000, (400000 * (current_price - ma20))
                                          \div ma20)
                          + Min(5000, (500000 * (current_price - ma50))
                                          \div (3 * ma50)))
             vol_score ==
                 IF ~volume_ok THEN 0
                 ELSE Min(10000, 5000 + ((volume_ratio - 130) * 5000) \div 70)
         IN  [entry_score |->
                  RoundDiv(rsi_score + macd_score + ma_align_score + vol_score,
                           10),
              all_conditions_pass |->
                  rsi_ok /\ macd_positive /\ macd_improving /\ above_ma20
                  /\ above_ma50 /\ volume_ok]

-----------------------------------------------------------------------------
(* SpecScore: the scoring functions, each applied to one input drawn from   *)
(* a grid of indicator values.                                              *)

RsiValues == {NoRsi} \cup 0 .. 1000

MacdLevels == {-400, -20, 0, 20, 400}

MacdValues ==
    {MacdNan}
    \cup {MacdData(m, s, mp, sp) :
            m \in MacdLevels, s \in MacdLevels, mp \in {-20, 20}, sp \in {0}}

PositionValues == {-50, 0, 5, 50, 100, 150}

MaValues ==
    {MaData(c, m20, m50, m200) :
        c \in {0, 10000}, m20 \in {0, 9400, 10000, 10600},
        m50 \in {0, 9000, 10400}, m200 \in {0, 8500, 11000}}

RatioValues == {50, 100, 101, 130, 150, 199, 200, 300}

\* the inputs of calculate_tech_score: the extremes of every indicator, with
\* too few bars, or with a computation that raises.  The indicator values
\* are combined freely, which covers every combination one frame can yield
TechInputs ==
    {[fn |-> "tech", bars |-> b, raises |-> x, rsi |-> r, macd |-> m,
      position |-> p, ma |-> a, ratio |-> v] :
        b \in {0, 19, 20, 250}, x \in BOOLEAN,
        r \in {NoRsi, 290, 550, 1000},
        m \in {MacdNan, MacdZero, MacdData(20, -20, -20, 0),
               MacdData(-400, 20, 20, 0), MacdData(-400, -20, -20, 0)},
        p \in {-50, 50, 150},
        a \in {MaData(10000, 9400, 9000, 8500), MaData(10000, 10600, 10400, 0),
               MaData(0, 0, 0, 0)},
        v \in {50, 150, 300}}

SubScoreInputs ==
    {[fn |-> "rsi", rsi |-> r] : r \in RsiValues}
    \cup {[fn |-> "macd", macd |-> m] : m \in MacdValues}
    \cup {[fn |-> "bb", position |-> p] : p \in PositionValues}
    \cup {[fn |-> "ma", ma |-> a] : a \in MaValues}
    \cup {[fn |-> "volume", ratio |-> v] : v \in RatioValues}

\* the inputs of calculate_scalp_entry_score: prices in cents
EntryInputs ==
    {[fn |-> "entry", bars |-> b, raises |-> x, rsi |-> r, hist_today |-> h,
      hist_yesterday |-> hy, two_day |-> t, current_price |-> 100000,
      ma20 |-> m20, ma50 |-> m50, volume_ratio |-> v] :
        b \in {54, 55}, x \in BOOLEAN, r \in {NoRsi, 440, 550, 680},
        h \in {-5, 1, 300}, hy \in {0, 400}, t \in BOOLEAN,
        m20 \in {0, 96000, 99999, 100100}, m50 \in {0, 96000, 99999},
        v \in {100, 150, 300}}

\* the inputs of calculate_combined_score: scores in tenths of a point
CombineInputs ==
    {[fn |-> "combined", tech_score |-> t, news_score |-> n] :
        t \in {-100, 0, 255, 500, 625, 1000, 1200},
        n \in {-100, 0, 250, 500, 1000, 1800}}

\* nothing was computed yet
NoOut == [done |-> FALSE]

ScoreInputs == TechInputs \cup SubScoreInputs \cup EntryInputs \cup CombineInputs

InitScore ==
    /\ day = 0
    /\ slot = 2
    /\ holding = NoHolding
    /\ signals = {}
    /\ lastRun = NoRun
    /\ nRuns = 0
    /\ hist = NoHist
    /\ runs = <<>>
    /\ dIn \in ScoreInputs
    /\ dOut = NoOut

Apply(fn, out) ==
    /\ ~dOut.done
    /\ dIn.fn = fn
    /\ dOut' = [done |-> TRUE, value |-> out]
    /\ UNCHANGED <<day, slot, holding, signals, lastRun, nRuns, hist, runs, dIn>>

CalculateTechScore ==
    Apply("tech", TechScore(dIn.bars, dIn.raises, dIn.rsi, dIn.macd,
                            dIn.position, dIn.ma, dIn.ratio))

ApplyRsiScore == Apply("rsi", RsiScore(dIn.rsi))

ApplyMacdScore == Apply("macd", MacdScore(dIn.macd))

ApplyBbScore == Apply("bb", BbScore(dIn.position))

ApplyMaScore == Apply("ma", MaScore(dIn.ma))

ApplyVolumeScore == Apply("volume", VolumeScore(dIn.ratio))

CalculateScalpEntryScore ==
    Apply("entry",
          ScalpEntryScore(dIn.bars, dIn.raises, dIn.rsi, dIn.hist_today,
                          dIn.hist_yesterday, dIn.two_day, dIn.current_price,
                          dIn.ma20, dIn.ma50, dIn.volume_ratio))

CalculateCombinedScore ==
    Apply("combined", CombinedScore(dIn.tech_score, dIn.news_score))

NextScore ==
    \/ CalculateTechScore
    \/ ApplyRsiScore
    \/ ApplyMacdScore
    \/ ApplyBbScore
    \/ ApplyMaScore
    \/ ApplyVolumeScore
    \/ CalculateScalpEntryScore
    \/ CalculateCombinedScore

SpecScore == InitScore /\ [][NextScore]_vars

-----------------------------------------------------------------------------
(* BuyRecommenderAgent.get_top3 (buy_recommender.py).  A symbol is its      *)
(* position in SP500_TICKERS; dIn is the scenario (what the collaborators   *)
(* answer), dOut the local state of the run.                                *)

\* settings, in hundredths of a point like the combined score
SCALP_BUY_THRESHOLD == 7500
BUY_THRESHOLD == 7000
FALLBACK_BUY_THRESHOLD == 6200
\* the slices [:20] and [:3]
ShortlistSize == 20
TopSize == 3

\* order of the tuples that Python's sorted compares
KeyGreater(a, b) == a[1] > b[1] \/ (a[1] = b[1] /\ a[2] > b[2])

\* sorted(..., reverse=True) is stable: an item goes behind the items whose
\* key is not smaller
RECURSIVE InsertDesc(_, _)
InsertDesc(x, s) ==
    IF s = <<>> THEN <<x>>
    ELSE IF KeyGreater(x.key, Head(s).key) THEN <<x>> \o s
    ELSE <<Head(s)>> \o InsertDesc(x, Tail(s))

RECURSIVE SortedDesc(_)
SortedDesc(s) ==
    IF s = <<>> THEN <<>>
    ELSE InsertDesc(s[Len(s)], SortedDesc(SubSeq(s, 1, Len(s) - 1)))

Prefix(s, n) == SubSeq(s, 1, Min(n, Len(s)))

\* _get_portfolio_tickers: the held tickers, or the empty set when the query
\* raises
PortfolioTickers(held, lookup_fails) ==
    IF lookup_fails THEN {} ELSE held

\* faulty variant: every scored symbol goes on to the news stage
Top20Uncut(tech_scores) ==
    SortedDesc([i \in 1 .. Len(tech_scores) |->
                   [ticker |-> tech_scores[i][1], tech_score |-> tech_scores[i][2],
                    key |-> <<0, tech_scores[i][2]>>]])

\* top20: tech_scores is the list of (ticker, score) in scan order
Top20(tech_scores) ==
    Prefix(SortedDesc([i \in 1 .. Len(tech_scores) |->
                          [ticker |-> tech_scores[i][1],
                           tech_score |-> tech_scores[i][2],
                           key |-> <<0, tech_scores[i][2]>>]]),
           ShortlistSize)

\* faulty variant: the candidates are ranked by combined_score alone
RankKeyScoreOnly(strategy, combined_score) == <<0, combined_score>>

\* the sort key of top3
RankKey(strategy, combined_score) ==
    <<IF strategy = "SCALP" THEN 1 ELSE 0, combined_score>>

\* one candidate; signal is SCALP_BUY, BUY or WATCH
Candidate(ticker, tech_score, news) ==
    LET combined_score == CombinedScore(tech_score, news.news_score)
        threshold == IF news.news_available THEN BUY_THRESHOLD
                     ELSE FALLBACK_BUY_THRESHOLD
        scalp == news.scalp_ok /\ combined_score >= SCALP_BUY_THRESHOLD
        strategy == IF scalp THEN "SCALP" ELSE "SWING"
    IN  [ticker |-> ticker,
         tech_score |-> tech_score,
         combined_score |-> combined_score,
         scalp_conditions_pass |-> news.scalp_ok,
         news_available |-> news.news_available,
         signal |-> IF scalp THEN "SCALP_BUY"
                    ELSE IF combined_score >= threshold THEN "BUY"
                    ELSE "WATCH",
         strategy |-> strategy,
         key |-> RankKey(strategy, combined_score)]

\* top3
Top3(candidates) == Prefix(SortedDesc(candidates), TopSize)

-----------------------------------------------------------------------------
(* SpecTop3: one run of get_top3 over a scanned universe.                   *)

\* size of the universes whose symbols are enumerated
MaxSymbols == 4

\* what the collaborators answer for one symbol: its technical score
\* (tenths), the sentiment result and the scalp validation
SymbolAnswer(tech_score, news_available, scalp_ok) ==
    [tech_score |-> tech_score,
     news_available |-> news_available,
     news_score |-> IF news_available THEN 900 ELSE 500,
     scalp_ok |-> scalp_ok]

SymbolAnswers ==
    {SymbolAnswer(t, a, s) : t \in {500, 950}, a \in BOOLEAN, s \in BOOLEAN}

SmallUniverses ==
    UNION {[1 .. n -> SymbolAnswers] : n \in 0 .. MaxSymbols}

\* universes larger than the shortlist: scores rising, falling or equal along
\* the scan order
LargeUniverses ==
    {[i \in 1 .. n |->
         SymbolAnswer(CASE p = "rising" -> 300 + 30 * i
                        [] p = "falling" -> 1000 - 30 * i
                        [] OTHER -> 800,
                      i % 2 = 0, i % 3 = 0)] :
        n \in {ShortlistSize + 1, ShortlistSize + 2},
        p \in {"rising", "falling", "flat"}}

\* the holdings at the start of the scan, and whether their lookup raises
HeldCases == {<<{}, FALSE>>, <<{1}, FALSE>>, <<{1}, TRUE>>, <<{2, 3}, FALSE>>}

Top3Inputs ==
    {[fn |-> "top3", symbols |-> u, held |-> h[1], lookup_fails |-> h[2]] :
        u \in SmallUniverses \cup LargeUniverses, h \in HeldCases}

Top3Start ==
    [pc |-> "start", portfolio_tickers |-> {}, scan_tickers |-> <<>>,
     top20 |-> <<>>, fetched |-> {}, analyzed |-> {}, validated |-> {},
     result |-> <<>>]

InitTop3 ==
    /\ day = 0
    /\ slot = 2
    /\ holding = NoHolding
    /\ signals = {}
    /\ lastRun = NoRun
    /\ nRuns = 0
    /\ hist = NoHist
    /\ runs = <<>>
    /\ dIn \in Top3Inputs
    /\ dOut = Top3Start

Tickers(s) == {s[i].ticker : i \in 1 .. Len(s)}

\* stage 1: the held symbols are taken out of the universe
ExcludeHeld ==
    /\ dOut.pc = "start"
    /\ LET portfolio_tickers == PortfolioTickers(dIn.held, dIn.lookup_fails)
           NotHeld(t) == t \notin portfolio_tickers
       IN  dOut' = [dOut EXCEPT
                       !.pc = "score",
                       !.portfolio_tickers = portfolio_tickers,
                       !.scan_tickers =
                           SelectSeq([i \in 1 .. Len(dIn.symbols) |-> i],
                                     NotHeld)]
    /\ UNCHANGED <<day, slot, holding, signals, lastRun, nRuns, hist, runs, dIn>>

\* stage 2: score_batch and the shortlist; nothing scored ends the run
ScoreBatch ==
    /\ dOut.pc = "score"
    /\ LET tech_scores ==
               [i \in 1 .. Len(dOut.scan_tickers) |->
                   <<dOut.scan_tickers[i],
                     dIn.symbols[dOut.scan_tickers[i]].tech_score>>]
       IN  dOut' = IF tech_scores = <<>>
                   THEN [dOut EXCEPT !.pc = "done"]
                   ELSE [dOut EXCEPT !.pc = "news",
                                     !.top20 = Top20(tech_scores)]
    /\ UNCHANGED <<day, slot, holding, signals, lastRun, nRuns, hist, runs, dIn>>

\* stage 3: fetch_news and analyze_batch for the shortlist
AnalyzeNews ==
    /\ dOut.pc = "news"
    /\ dOut' = [dOut EXCEPT !.pc = "scalp",
                            !.fetched = Tickers(dOut.top20),
                            !.analyzed = Tickers(dOut.top20)]
    /\ UNCHANGED <<day, slot, holding, signals, lastRun, nRuns, hist, runs, dIn>>

\* _validate_scalp_entry for the shortlist
ValidateScalpEntry ==
    /\ dOut.pc = "scalp"
    /\ dOut' = [dOut EXCEPT !.pc = "rank",
                            !.validated = Tickers(dOut.top20)]
    /\ UNCHANGED <<day, slot, holding, signals, lastRun, nRuns, hist, runs, dIn>>

\* stage 4: the candidates and their ranking
RankCandidates ==
    /\ dOut.pc = "rank"
    /\ LET candidates ==
               [i \in 1 .. Len(dOut.top20) |->
                   Candidate(dOut.top20[i].ticker, dOut.top20[i].tech_score,
                             dIn.symbols[dOut.top20[i].ticker])]
       IN  dOut' = [dOut EXCEPT !.pc = "done", !.result = Top3(candidates)]
    /\ UNCHANGED <<day, slot, holding, signals, lastRun, nRuns, hist, runs, dIn>>

NextTop3 ==
    \/ ExcludeHeld
    \/ ScoreBatch
    \/ AnalyzeNews
    \/ ValidateScalpEntry
    \/ RankCandidates

SpecTop3 == InitTop3 /\ [][NextTop3]_vars

-----------------------------------------------------------------------------
(* NewsAnalystAgent (news_analyst.py): one sentiment analysis of one symbol *)
(* on the buy side (analyze, _call_claude) or on the portfolio side         *)
(* (analyze_for_portfolio, _call_claude_portfolio).  dIn is what the        *)
(* provider answers to the successive calls, dOut the state of the loop.    *)

\* range(3)
MaxAttempts == 3

\* the keywords of _is_permanent_error that occur in an error message
PermanentKeywords ==
    {"credit balance is too low", "insufficient balance", "billing",
     "payment required", "invalid_request_error", "authentication",
     "unauthorized", "forbidden", "invalid api key"}

\* an answer of the provider: kind "ok" carries a score (tenths); an error
\* carries the keyword found in its message ("none": no keyword of the list)
\* and its status_code (0: the exception has none)
Answer(kind, score, keyword, status_code) ==
    [kind |-> kind, score |-> score, keyword |-> keyword,
     status_code |-> status_code]

Answers ==
    {Answer("ok", 200, "none", 0),
     Answer("ok", 800, "none", 0),
     Answer("bad_json", 0, "none", 0),
     Answer("authentication", 0, "authentication", 401),
     Answer("billing", 0, "credit balance is too low", 400),
     Answer("forbidden", 0, "none", 403),
     Answer("bad_request", 0, "none", 400),
     Answer("rate_limit", 0, "none", 429),
     Answer("overloaded", 0, "none", 529),
     Answer("timeout", 0, "none", 0)}

\* faulty variant: only the message is looked at
IsPermanentErrorByMessage(error) ==
    error.keyword \in PermanentKeywords

\* _is_permanent_error
IsPermanentError(error) ==
    \/ error.keyword \in PermanentKeywords
    \/ error.status_code \in {400, 401, 403}

\* faulty variant: the same delay before every retry
BackoffFlat(attempt) == 1

\* time.sleep(2 ** attempt), in seconds
Backoff(attempt) == 2 ^ attempt

\* faulty variant: the portfolio side falls back to the buy side's neutral 50
FallbackResultFifty(side) ==
    [score |-> 500, news_available |-> FALSE]

\* _fallback_result and _portfolio_fallback
FallbackResult(side) ==
    [score |-> IF side = "buy" THEN 500 ELSE 250, news_available |-> FALSE]

\* analyze and analyze_for_portfolio without headlines
NoHeadlinesResult(side) ==
    [score |-> IF side = "buy" THEN 500 ELSE 250,
     news_available |-> side = "buy"]

NoResult == [score |-> 0, news_available |-> FALSE]

\* one iteration of "for attempt in range(3)" on state st with answer a
Attempt(st, a, side) ==
    LET st1 == [st EXCEPT !.calls = @ + 1, !.log = Append(@, a)]
    IN  IF a.kind = "ok"
        THEN [st1 EXCEPT !.pc = "done",
                         !.result = [score |-> a.score, news_available |-> TRUE]]
        ELSE IF IsPermanentError(a)
        THEN [st1 EXCEPT !.pc = "done", !.result = FallbackResult(side)]
        ELSE LET st2 == IF st.attempt < 2
                        THEN [st1 EXCEPT !.sleeps = Append(@, Backoff(st.attempt))]
                        ELSE st1
             IN  IF st.attempt + 1 < MaxAttempts
                 THEN [st2 EXCEPT !.attempt = @ + 1]
                 ELSE [st2 EXCEPT !.pc = "done",
                                  !.result = FallbackResult(side)]

-----------------------------------------------------------------------------
(* SpecRetry, SpecRetryLive: the retry loop against every sequence of       *)
(* provider answers.                                                        *)

RetryInputs ==
    {[fn |-> "sentiment", side |-> s, headlines |-> h, api_key |-> k,
      answers |-> <<a1, a2, a3>>] :
        s \in {"buy", "sell"}, h \in BOOLEAN, k \in BOOLEAN,
        a1 \in Answers, a2 \in Answers, a3 \in Answers}

RetryStart ==
    [pc |-> "start", attempt |-> 0, calls |-> 0, log |-> <<>>,
     sleeps |-> <<>>, result |-> NoResult]

InitRetry ==
    /\ day = 0
    /\ slot = 2
    /\ holding = NoHolding
    /\ signals = {}
    /\ lastRun = NoRun
    /\ nRuns = 0
    /\ hist = NoHist
    /\ runs = <<>>
    /\ dIn \in RetryInputs
    /\ dOut = RetryStart

\* analyze / analyze_for_portfolio up to the call of the loop
Analyze ==
    /\ dOut.pc = "start"
    /\ dOut' = IF ~dIn.headlines
               THEN [dOut EXCEPT !.pc = "done",
                                 !.result = NoHeadlinesResult(dIn.side)]
               ELSE IF ~dIn.api_key
               THEN [dOut EXCEPT !.pc = "done",
                                 !.result = FallbackResult(dIn.side)]
               ELSE [dOut EXCEPT !.pc = "call"]
    /\ UNCHANGED <<day, slot, holding, signals, lastRun, nRuns, hist, runs, dIn>>

\* one iteration of the loop of _call_claude
CallClaude ==
    /\ dOut.pc = "call"
    /\ dIn.side = "buy"
    /\ dOut' = Attempt(dOut, dIn.answers[dOut.attempt + 1], "buy")
    /\ UNCHANGED <<day, slot, holding, signals, lastRun, nRuns, hist, runs, dIn>>

\* one iteration of the loop of _call_claude_portfolio
CallClaudePortfolio ==
    /\ dOut.pc = "call"
    /\ dIn.side = "sell"
    /\ dOut' = Attempt(dOut, dIn.answers[dOut.attempt + 1], "sell")
    /\ UNCHANGED <<day, slot, holding, signals, lastRun, nRuns, hist, runs, dIn>>

NextRetry ==
    \/ Analyze
    \/ CallClaude
    \/ CallClaudePortfolio

SpecRetry == InitRetry /\ [][NextRetry]_vars

\* every provider call returns or raises, so the loop is not suspended forever
SpecRetryLive == InitRetry /\ [][NextRetry]_vars /\ WF_vars(NextRetry)

-----------------------------------------------------------------------------
(* SpecSwingNews: the sell-side sentiment of one swing holding, from        *)
(* analyze_for_portfolio to the swing ladder of check_sell_signals.         *)

\* the rule of the swing ladder that sets signal_type: 1 stop loss, 2 take
\* profit, 3 two HIGH signals, 4 HIGH signal with news, 5 news alone,
\* 6 combined score; 0 when the holding is kept
SwingRule(data, high, news_sell_score, tech_score) ==
    LET pnl_pct == data.unrealized_pnl_pct
        combined_score ==
            CombinedScore(tech_score, NewsScoreForCombined(news_sell_score))
    IN  IF PctLE(pnl_pct, STOP_LOSS_PCT) THEN 1
        ELSE IF PctGE(pnl_pct, TAKE_PROFIT_PCT) THEN 2
        ELSE IF high >= 2 THEN 3
        ELSE IF high > 0 /\ news_sell_score >= SWING_NEWS_COMBINED_THRESHOLD
             THEN 4
        ELSE IF news_sell_score >= SWING_NEWS_ALONE_THRESHOLD THEN 5
        ELSE IF combined_score < SELL_THRESHOLD THEN 6
        ELSE 0

\* news_sell_results.get(ticker, {"sell_score": 25.0, ...}).get("sell_score",
\* 25.0); missing: the symbol is not a key of the batch result
NewsSellScore(missing, result) ==
    IF missing THEN 250 ELSE result.score

SwingAnswers ==
    {Answer("ok", 200, "none", 0),
     Answer("ok", 650, "none", 0),
     Answer("ok", 800, "none", 0),
     Answer("bad_json", 0, "none", 0),
     Answer("billing", 0, "credit balance is too low", 400),
     Answer("rate_limit", 0, "none", 429)}

\* a swing holding bought at 200 and quoted at 200
SwingHolding ==
    [NewHolding(200 * PriceScale, 1, FALSE, 0)
        EXCEPT !.current_price = 200 * PriceScale]

SwingNewsInputs ==
    {[fn |-> "swing_news", side |-> "sell", headlines |-> h, api_key |-> k,
      answers |-> <<a1, a2, a3>>, missing |-> m, high |-> n, tech |-> t] :
        h \in BOOLEAN, k \in BOOLEAN, m \in BOOLEAN,
        a1 \in SwingAnswers, a2 \in SwingAnswers, a3 \in SwingAnswers,
        n \in HighCounts, t \in TechScores}

SwingNewsStart ==
    [pc |-> "start", attempt |-> 0, calls |-> 0, log |-> <<>>,
     sleeps |-> <<>>, result |-> NoResult,
     news_sell_score |-> 0, rule |-> 0, decision |-> "NONE"]

InitSwingNews ==
    /\ day = 0
    /\ slot = 2
    /\ holding = SwingHolding
    /\ signals = {}
    /\ lastRun = NoRun
    /\ nRuns = 0
    /\ hist = NoHist
    /\ runs = <<>>
    /\ dIn \in SwingNewsInputs
    /\ dOut = SwingNewsStart

\* check_sell_signals for the holding, once the batch result is there
SwingDecision ==
    /\ dOut.pc = "done"
    /\ dIn.fn = "swing_news"
    /\ LET news_sell_score == NewsSellScore(dIn.missing, dOut.result)
       IN  dOut' = [dOut EXCEPT
                       !.pc = "decided",
                       !.news_sell_score = news_sell_score,
                       !.rule = SwingRule(holding, dIn.high, news_sell_score,
                                          dIn.tech),
                       !.decision = SwingSignal(holding, dIn.high,
                                                news_sell_score, dIn.tech)]
    /\ UNCHANGED <<day, slot, holding, signals, lastRun, nRuns, hist, runs, dIn>>

NextSwingNews ==
    \/ Analyze
    \/ CallClaudePortfolio
    \/ SwingDecision

SpecSwingNews == InitSwingNews /\ [][NextSwingNews]_vars

-----------------------------------------------------------------------------
(* SpecPrices: update_prices over a portfolio of PortfolioSize holdings.    *)
(* dIn holds the rows get_holdings read and what fetch_current_price        *)
(* answered for each; dOut the position in the loop, the session's objects  *)
(* and, after the commit, the stored rows.                                  *)

\* the rows of a portfolio on the morning of day 1: a scalp holding bought
\* at 200 on day 0 and never refreshed, the same after a refresh on day 0 at
\* 203 (locked) and at 204 (trailing), and a swing holding
HeldRows ==
    LET bought == NewHolding(200 * PriceScale, 1, TRUE, 0)
        OnDayZero(row) == [row EXCEPT !.trading_days_held = 0]
    IN  {bought,
         OnDayZero(RefreshedObj(bought, bought, 203 * PriceScale)),
         OnDayZero(RefreshedObj(bought, bought, 204 * PriceScale)),
         NewHolding(200 * PriceScale, 1, FALSE, 0)}

\* fetch_current_price: 0 stands for None and for an exception
LookupPrices == {0, 196 * PriceScale, 204 * PriceScale, 206 * PriceScale}

PricesInputs ==
    {[fn |-> "update_prices", holdings |-> hs, prices |-> ps] :
        hs \in [1 .. PortfolioSize -> HeldRows],
        ps \in [1 .. PortfolioSize -> LookupPrices]}

\* faulty variant: the loop is left at the first failed lookup
BreakAt(i, n) == n + 1

\* "continue": the loop goes on with the next holding
ContinueAt(i, n) == i + 1

InitPrices ==
    /\ day = 1
    /\ slot = 2
    /\ holding = NoHolding
    /\ signals = {}
    /\ lastRun = NoRun
    /\ nRuns = 0
    /\ hist = NoHist
    /\ runs = <<>>
    /\ dIn \in PricesInputs
    /\ dOut = [pc |-> "loop", i |-> 1, objs |-> dIn.holdings,
               stored |-> dIn.holdings]

\* one iteration of "for holding_data, price in zip(holdings, prices)"
RefreshHolding ==
    /\ dOut.pc = "loop"
    /\ dOut.i <= PortfolioSize
    /\ LET i == dOut.i
           price == dIn.prices[i]
           row == dIn.holdings[i]
       IN  IF price = 0
           THEN dOut' = [dOut EXCEPT !.i = ContinueAt(i, PortfolioSize)]
           ELSE dOut' = [dOut EXCEPT
                            !.i = i + 1,
                            !.objs[i] = RefreshedObj(row, Snapshot(row), price)]
    /\ UNCHANGED <<day, slot, holding, signals, lastRun, nRuns, hist, runs, dIn>>

\* session.commit() after the loop
CommitSession ==
    /\ dOut.pc = "loop"
    /\ dOut.i > PortfolioSize
    /\ dOut' = [dOut EXCEPT
                   !.pc = "committed",
                   !.stored = [i \in 1 .. PortfolioSize |->
                                  Flush(dIn.holdings[i], dIn.holdings[i],
                                        dOut.objs[i], Now)]]
    /\ UNCHANGED <<day, slot, holding, signals, lastRun, nRuns, hist, runs, dIn>>

NextPrices ==
    \/ RefreshHolding
    \/ CommitSession

SpecPrices == InitPrices /\ [][NextPrices]_vars

-----------------------------------------------------------------------------
(* SpecRound: decision runs on a scalp holding whose average price makes    *)
(* the profit rate fall between two hundredths of a percent.                *)

\* the purchase price, 250.50
RoundAvg == (501 * PriceScale) \div 2

\* market prices in half dollars: 244.50 (-2.395%), 245.50 (-1.996%),
\* 250.50, 255.50 (+1.996%), 258.00 (+2.994%) and 258.50 (+3.194%)
RoundPrices == {(h * PriceScale) \div 2 : h \in {489, 491, 501, 511, 516, 517}}

\* one scalp holding bought at 250.50 at the open of day 0
InitRound ==
    /\ day = 0
    /\ slot = 2
    /\ holding = NewHolding(RoundAvg, 1, TRUE, 0)
    /\ signals = {}
    /\ lastRun = NoRun
    /\ nRuns = 0
    /\ hist = NoHist
    /\ runs = <<>>
    /\ dIn = <<>>
    /\ dOut = "NONE"

NextRound ==
    \/ ScheduledRun(RoundPrices \cup {0}, {"none"}, NeutralInputs)
    \/ OnDemandRun(RoundPrices \cup {0}, {"none"}, NeutralInputs)

SpecRound == InitRound /\ [][NextRound]_vars

-----------------------------------------------------------------------------
(* detect_bearish_signals (technical_indicators.py), on the indicator       *)
(* values of the frame; declined: the last close is under the one before.   *)

BearishSignal(type, severity) == [type |-> type, severity |-> severity]

\* severity_order.get(severity, 9)
SeverityOrder(severity) ==
    CASE severity = "HIGH" -> 0
      [] severity = "MEDIUM" -> 1
      [] severity = "LOW" -> 2
      [] OTHER -> 9

\* the signals in the order of their detection
DetectedSignals(rsi, m, position, ma, ratio, declined) ==
    LET macd_part ==
            IF DeadCross(m)
            THEN <<BearishSignal("MACD_DEATH_CROSS", "HIGH")>>
            ELSE IF ~m.nan /\ m.macd < m.signal
                    /\ 100 * m.hist < -Max(50000, 5 * Abs(m.signal))
            THEN <<BearishSignal("MACD_BEARISH", "MEDIUM")>>
            ELSE <<>>
        rsi_part ==
            IF rsi # NoRsi /\ rsi # 0 /\ rsi >= 720
            THEN <<BearishSignal("RSI_OVERBOUGHT", "MEDIUM")>> ELSE <<>>
        ma20_part ==
            IF ma.ma20 # 0 /\ 100 * ma.current < 99 * ma.ma20
            THEN <<BearishSignal("BELOW_MA20", "MEDIUM")>> ELSE <<>>
        ma50_part ==
            IF ma.ma50 # 0 /\ 100 * ma.current < 99 * ma.ma50
            THEN <<BearishSignal("BELOW_MA50", "HIGH")>> ELSE <<>>
        cross_part ==
            IF ma.ma50 # 0 /\ ma.ma200 # 0 /\ ma.ma50 < ma.ma200
            THEN <<BearishSignal("DEATH_CROSS_50_200", "HIGH")>> ELSE <<>>
        bb_part ==
            IF position < 5
            THEN <<BearishSignal("BB_LOWER_BREAK", "MEDIUM")>> ELSE <<>>
        volume_part ==
            IF ratio > 150 /\ declined
            THEN <<BearishSignal("HIGH_VOLUME_DECLINE", "MEDIUM")>> ELSE <<>>
    IN  macd_part \o rsi_part \o ma20_part \o ma50_part \o cross_part
        \o bb_part \o volume_part

\* faulty variant: an item goes in front of the items of its own severity
RECURSIVE InsertBySeverityUnstable(_, _)
InsertBySeverityUnstable(x, s) ==
    IF s = <<>> THEN <<x>>
    ELSE IF SeverityOrder(x.severity) <= SeverityOrder(Head(s).severity)
    THEN <<x>> \o s
    ELSE <<Head(s)>> \o InsertBySeverityUnstable(x, Tail(s))

\* list.sort(key=...) is stable: an item goes behind the items whose key is
\* not greater
RECURSIVE InsertBySeverity(_, _)
InsertBySeverity(x, s) ==
    IF s = <<>> THEN <<x>>
    ELSE IF SeverityOrder(x.severity) < SeverityOrder(Head(s).severity)
    THEN <<x>> \o s
    ELSE <<Head(s)>> \o InsertBySeverity(x, Tail(s))

RECURSIVE SortBySeverity(_)
SortBySeverity(s) ==
    IF s = <<>> THEN <<>>
    ELSE InsertBySeverity(s[Len(s)], SortBySeverity(SubSeq(s, 1, Len(s) - 1)))

NoBearish == [signals |-> <<>>, count |-> 0, high_severity_count |-> 0]

\* detect_bearish_signals.  bars = 0: df is None or empty; raises: a
\* computation inside the try block raises
DetectBearishSignals(bars, raises, rsi, m, position, ma, ratio, declined) ==
    IF bars < 20 \/ raises THEN NoBearish
    ELSE LET sorted == SortBySeverity(
                           DetectedSignals(rsi, m, position, ma, ratio,
                                           declined))
         IN  [signals |-> sorted,
              count |-> Len(sorted),
              high_severity_count |->
                  Cardinality({i \in 1 .. Len(sorted) :
                                   sorted[i].severity = "HIGH"})]

-----------------------------------------------------------------------------
(* SpecBearish: detect_bearish_signals on a grid of indicator values.       *)

BearishInputs ==
    {[fn |-> "bearish", bars |-> b, raises |-> x, rsi |-> r, macd |-> m,
      position |-> p, ma |-> a, ratio |-> v, declined |-> d] :
        b \in {19, 250}, x \in BOOLEAN,
        r \in {NoRsi, 500, 750},
        m \in {MacdNan, MacdData(20, -20, -20, 0), MacdData(-400, 20, 20, 0),
               MacdData(-4000, -20, -30, 0)},
        p \in {-50, 50},
        a \in {MaData(10000, 9400, 9000, 8500),
               MaData(10000, 10600, 10400, 0),
               MaData(10000, 10600, 10400, 11000),
               MaData(10000, 9900, 10300, 10500)},
        v \in {100, 200}, d \in BOOLEAN}

InitBearish ==
    /\ day = 0
    /\ slot = 2
    /\ holding = NoHolding
    /\ signals = {}
    /\ lastRun = NoRun
    /\ nRuns = 0
    /\ hist = NoHist
    /\ runs = <<>>
    /\ dIn \in BearishInputs
    /\ dOut = NoOut

DetectBearish ==
    Apply("bearish",
          DetectBearishSignals(dIn.bars, dIn.raises, dIn.rsi, dIn.macd,
                               dIn.position, dIn.ma, dIn.ratio, dIn.declined))

NextBearish == DetectBearish

SpecBearish == InitBearish /\ [][NextBearish]_vars

-----------------------------------------------------------------------------
(* SpecBatch: the semaphore-bounded fan-out of score_batch, analyze_batch   *)
(* and analyze_batch_for_portfolio.  The tasks enter the semaphore in the   *)
(* order gather created them (its waiters are served first in, first out),  *)
(* so the tasks that hold or held it are the first "started" ones.  One     *)
(* symbol of the batch is followed by name, the others are counted.         *)

\* max_concurrent of the three calls
ScoreBatchCap == 30
NewsBatchCap == 5
PortfolioNewsCap == 3

BatchCap(kind) ==
    CASE kind = "score_batch" -> ScoreBatchCap
      [] kind = "analyze_batch" -> NewsBatchCap
      [] kind = "analyze_batch_for_portfolio" -> PortfolioNewsCap

\* batches of up to MaxExtra symbols more than the semaphore admits
BatchInputs ==
    {[fn |-> "batch", kind |-> k, n |-> n, tracked |-> t] :
        k \in {"score_batch", "analyze_batch", "analyze_batch_for_portfolio"},
        n \in 1 .. ScoreBatchCap + MaxExtra, t \in 1 .. ScoreBatchCap + MaxExtra}

BatchStart ==
    [pc |-> "created", value |-> 0, started |-> 0, tracked_state |-> "waiting",
     inflight_others |-> 0, done_others |-> 0, results |-> 0]

InitBatch ==
    /\ day = 0
    /\ slot = 2
    /\ holding = NoHolding
    /\ signals = {}
    /\ lastRun = NoRun
    /\ nRuns = 0
    /\ hist = NoHist
    /\ runs = <<>>
    /\ dIn \in {in \in BatchInputs :
                   /\ in.n \in {1} \cup (BatchCap(in.kind)
                                          .. BatchCap(in.kind) + MaxExtra)
                   /\ in.tracked <= in.n}
    /\ dOut = BatchStart

\* faulty variant: the semaphore admits a task whatever its value
AcquiresAlways(value) == TRUE

\* Semaphore.acquire does not block while the value is positive
Acquires(value) == value > 0

InFlight(st) ==
    st.inflight_others + IF st.tracked_state = "inflight" THEN 1 ELSE 0

Analysed(st) ==
    st.done_others + IF st.tracked_state = "done" THEN 1 ELSE 0

\* the state after the next task in line has entered the semaphore
Entered(st, tracked) ==
    LET k == st.started + 1
    IN  [st EXCEPT !.value = @ - 1,
                   !.started = k,
                   !.tracked_state = IF k = tracked THEN "inflight" ELSE @,
                   !.inflight_others = IF k = tracked THEN @ ELSE @ + 1]

\* asyncio.gather(*tasks): every task runs up to "async with semaphore"; the
\* first ones take the semaphore until its value is 0, the others wait
Gather ==
    /\ dIn.fn = "batch"
    /\ dOut.pc = "created"
    /\ LET entering == Min(dIn.n, BatchCap(dIn.kind))
           tracked_enters == dIn.tracked <= entering
       IN  dOut' = [dOut EXCEPT
                       !.pc = "running",
                       !.value = BatchCap(dIn.kind) - entering,
                       !.started = entering,
                       !.tracked_state =
                           IF tracked_enters THEN "inflight" ELSE "waiting",
                       !.inflight_others =
                           IF tracked_enters THEN entering - 1 ELSE entering]
    /\ UNCHANGED <<day, slot, holding, signals, lastRun, nRuns, hist, runs, dIn>>

\* an analysis returns and its task leaves the semaphore
FinishAnalysis ==
    /\ dIn.fn = "batch"
    /\ dOut.pc = "running"
    /\ \/ /\ dOut.tracked_state = "inflight"
          /\ dOut' = [dOut EXCEPT !.tracked_state = "done", !.value = @ + 1]
       \/ /\ dOut.inflight_others > 0
          /\ dOut' = [dOut EXCEPT !.inflight_others = @ - 1,
                                  !.done_others = @ + 1,
                                  !.value = @ + 1]
    /\ UNCHANGED <<day, slot, holding, signals, lastRun, nRuns, hist, runs, dIn>>

\* the first waiter is woken and enters the semaphore
WakeWaiter ==
    /\ dIn.fn = "batch"
    /\ dOut.pc = "running"
    /\ dOut.started < dIn.n
    /\ Acquires(dOut.value)
    /\ dOut' = Entered(dOut, dIn.tracked)
    /\ UNCHANGED <<day, slot, holding, signals, lastRun, nRuns, hist, runs, dIn>>

\* gather returns and the result dict is built
ReturnBatch ==
    /\ dIn.fn = "batch"
    /\ dOut.pc = "running"
    /\ Analysed(dOut) = dIn.n
    /\ dOut' = [dOut EXCEPT !.pc = "returned", !.results = Analysed(dOut)]
    /\ UNCHANGED <<day, slot, holding, signals, lastRun, nRuns, hist, runs, dIn>>

NextBatch ==
    \/ Gather
    \/ FinishAnalysis
    \/ WakeWaiter
    \/ ReturnBatch

\* every analysis returns (the lookups end or time out) and the event loop
\* runs every task that is ready
SpecBatch == InitBatch /\ [][NextBatch]_vars /\ WF_vars(NextBatch)

-----------------------------------------------------------------------------
(* SpecAlert: decision runs followed by the delivery of their alerts, over  *)
(* the calendar. A delivery can fail: both senders swallow the exception.   *)

\* the rows whose alert went out by e-mail, the rows whose alert went out on
\* the stock_events channel, and pending: the rows of the last run's signal
\* type, inside its 24-hour window, of which no alert had gone out
AlertStart == [emailed |-> {}, published |-> {}, pending |-> {}]

Alerted(d) == d.emailed \cup d.published

InitAlert ==
    /\ day = 0
    /\ slot = 1
    /\ holding = NewHolding(200 * PriceScale, 1, TRUE, 0)
    /\ signals = {}
    /\ lastRun = NoRun
    /\ nRuns = 0
    /\ hist = NoHist
    /\ runs = <<>>
    /\ dIn = [fn |-> "alert"]
    /\ dOut = AlertStart

\* what the caller of the run does with the returned signals: the alerts go
\* out for the rows the run added, and only `if signals`
Deliver(publish_ok, email_ok) ==
    LET sent == IF lastRun'.signals # {} THEN signals' \ signals ELSE {}
    IN  dOut' = [emailed |-> dOut.emailed \cup (IF email_ok THEN sent ELSE {}),
                 published |-> dOut.published
                                   \cup (IF publish_ok THEN sent ELSE {}),
                 pending |-> DupRows(signals, lastRun'.decision, Now)
                                 \ Alerted(dOut)]

\* run_sell_analysis: the run, then _publish_sell_signals and
\* _send_email_notification
ScheduledAlertRun ==
    /\ DecisionRun(FALSE, DedupPrices, Faults, NeutralInputs)
    /\ \E publish_ok \in BOOLEAN, email_ok \in BOOLEAN :
           Deliver(publish_ok, email_ok)
    /\ UNCHANGED <<day, slot, runs, dIn>>

\* GET /sell-signals: the forced run, then send_sell_signal_email
OnDemandAlertRun ==
    /\ DecisionRun(TRUE, DedupPrices, Faults, NeutralInputs)
    /\ \E email_ok \in BOOLEAN : Deliver(FALSE, email_ok)
    /\ UNCHANGED <<day, slot, runs, dIn>>

NextAlert ==
    \/ ScheduledAlertRun
    \/ OnDemandAlertRun
    \/ AdvanceClock

SpecAlert == InitAlert /\ [][NextAlert]_vars

-----------------------------------------------------------------------------
(* Properties *)

AbsDiff(a, b) == IF a >= b THEN a - b ELSE b - a

\* C1: while a scalp holding lives, its trailing_stop_price, once set, is
\* never lower after a refresh (or any other step) than before it.
C1_TrailingStopNeverRetreats ==
    [][(holding.exists /\ holding'.exists /\ holding.is_scalp_trade
           /\ holding.trailing_stop_price # 0)
       => holding'.trailing_stop_price >= holding.trailing_stop_price]_vars

\* the price has fallen under a stop that trailing had raised above the
\* purchase price
C1_FellUnderRaisedStop ==
    /\ holding.exists
    /\ holding.trailing_stop_active
    /\ holding.trailing_stop_price > holding.avg_buy_price
    /\ holding.current_price # 0
    /\ holding.current_price < holding.trailing_stop_price

\* C2: the protection state only moves forward: breakeven_locked and
\* trailing_stop_active never go back to false while the holding lives, over
\* refreshes and additional buys, and trailing is never active without the
\* breakeven lock.
C2_ProtectionOnlyForward ==
    /\ [](holding.exists
            => (holding.trailing_stop_active => holding.breakeven_locked))
    /\ [][(holding.exists /\ holding'.exists)
            => /\ holding.breakeven_locked => holding'.breakeven_locked
               /\ holding.trailing_stop_active => holding'.trailing_stop_active
         ]_vars

\* a locked holding that was bought again after the lock (the stop is the
\* purchase price of the time of the lock, no longer the average)
C2_LockedThenBoughtMore ==
    /\ holding.exists
    /\ holding.breakeven_locked
    /\ ~holding.trailing_stop_active
    /\ holding.quantity > 1
    /\ holding.trailing_stop_price # holding.avg_buy_price

\* C3: trading_days_held is incremented at most once on a calendar day, and
\* never by a refresh made while the market is closed.
C3_AtMostOncePerDay ==
    holding.exists => (hist.incs <= 1 /\ ~hist.incClosed)

\* a day on which the first refresh in market hours counted and a later one
\* followed
C3_SecondRefreshSameDay ==
    /\ holding.exists
    /\ hist.incs = 1
    /\ hist.openRefreshes >= 2

\* C4: on every trading day after the purchase day on which the scalp
\* holding is refreshed in market hours, trading_days_held is incremented
\* exactly once.
C4_NoTradingDaySkipped ==
    (holding.exists /\ holding.is_scalp_trade /\ day > hist.bought
        /\ hist.openRefreshes >= 1)
    => hist.incs = 1

\* C5: the decision for a scalp holding is the first matching rule of
\* STOP_LOSS, TAKE_PROFIT, TRAILING_STOP, BREAKEVEN_STOP, TIME_STOP, and HOLD
\* exactly when none matches.
C5_ScalpLadder ==
    (dOut # "NONE" /\ dIn.data.is_scalp_trade) =>
        LET d == dIn.data
            stop_loss == PctLE(d.unrealized_pnl_pct, SCALP_STOP_LOSS_PCT)
            take_profit == PctGE(d.unrealized_pnl_pct, SCALP_TAKE_PROFIT_PCT)
            under_stop == d.current_price <= d.trailing_stop_price
            trailing == d.trailing_stop_active /\ under_stop
            breakeven == d.breakeven_locked /\ under_stop
            time_stop == d.trading_days_held >= SCALP_MAX_HOLDING_DAYS
        IN  dOut = CASE stop_loss -> "STOP_LOSS"
                     [] take_profit -> "TAKE_PROFIT"
                     [] trailing -> "TRAILING_STOP"
                     [] breakeven -> "BREAKEVEN_STOP"
                     [] time_stop -> "TIME_STOP"
                     [] OTHER -> "HOLD"

\* a stop loss decided for a holding whose trailing stop and time stop
\* conditions hold as well
C5_StopLossOverOthers ==
    /\ dOut = "STOP_LOSS"
    /\ dIn.data.is_scalp_trade
    /\ dIn.data.trailing_stop_active
    /\ dIn.data.current_price <= dIn.data.trailing_stop_price
    /\ dIn.data.trading_days_held >= SCALP_MAX_HOLDING_DAYS

C7_OneRecordOneAlert ==
    /\ \A r1, r2 \in signals :
           (r1 # r2 /\ r1.signal_type = r2.signal_type)
           => AbsDiff(r1.signal_at, r2.signal_at) > DedupWindow
    /\ lastRun.prior >= 1
       => (lastRun.signals = {} /\ lastRun.after = lastRun.prior)

\* a second run fired STOP_LOSS within 24 hours of the stored row
C7_DuplicateSuppressed ==
    /\ lastRun.decision = "STOP_LOSS"
    /\ lastRun.prior = 1
    /\ lastRun.fault = "none"
    /\ lastRun.signals = {}
    /\ Cardinality({r \in signals : r.signal_type = "STOP_LOSS"}) = 1

\* C8: with overlapping runs, at most one sell_signals row of a signal type
\* is written within 24 hours and at most one run returns the signal.
C8_DedupAtomic ==
    /\ \A r1, r2 \in signals :
           (r1 # r2 /\ r1.signal_type = r2.signal_type)
           => AbsDiff(r1.signal_at, r2.signal_at) > DedupWindow
    /\ \A a, b \in RunIds : a # b => runs[a].result \cap runs[b].result = {}

\* C9: with overlapping refreshes, the stored peak_price and
\* trailing_stop_price never go under a value stored earlier.
C9_RefreshesSerialized ==
    [][/\ holding'.peak_price >= holding.peak_price
       /\ holding'.trailing_stop_price >= holding.trailing_stop_price]_vars

\* C10: a run in which the dup_check query or the commit of the new row
\* fails returns no sell signal, and the failure is logged.
C10_DedupFailsClosed ==
    lastRun.fault # "none" => (lastRun.signals = {} /\ lastRun.error)

\* the commit failed in a run that had fired a new STOP_LOSS signal
C10_CommitFailedAfterSignal ==
    /\ lastRun.fault = "commit"
    /\ lastRun.decision = "STOP_LOSS"
    /\ lastRun.prior = 0
    /\ lastRun.signals = {}

C12_EntryScoreAboveSixty ==
    (/\ dOut.done
     /\ dIn.fn = "entry"
     /\ dIn.bars >= 55
     /\ ~dIn.raises
     /\ dIn.rsi = 550
     /\ dIn.hist_today > 0
     /\ dIn.hist_today > dIn.hist_yesterday
     /\ dIn.ma20 # 0 /\ dIn.current_price > dIn.ma20
     /\ dIn.ma50 # 0 /\ dIn.current_price > dIn.ma50
     /\ dIn.volume_ratio = 150)
    => (dOut.value.all_conditions_pass /\ dOut.value.entry_score > 6000)

\* C13: every technical sub-score is within its range: RSI in [0, 25] for an
\* RSI in [0, 100], MACD in [0, 25], Bollinger in [0, 20], moving averages in
\* [0, 20], volume in [0, 10].
C13_SubScoresInRange ==
    dOut.done =>
        /\ (dIn.fn = "rsi" /\ dIn.rsi # NoRsi)
               => (0 <= dOut.value /\ dOut.value <= 25000)
        /\ dIn.fn = "macd" => (0 <= dOut.value /\ dOut.value <= 25000)
        /\ dIn.fn = "bb" => (0 <= dOut.value /\ dOut.value <= 20000)
        /\ dIn.fn = "ma" => (0 <= dOut.value /\ dOut.value <= 20000)
        /\ dIn.fn = "volume" => (0 <= dOut.value /\ dOut.value <= 10000)

\* C14: calculate_combined_score(t, n) is 0.6 t + 0.4 n clamped to [0, 100];
\* it is 100.0 for (100, 100), 0.0 for (0, 0) and 50.0 for (50, 50).
C14_CombinedScoreFormula ==
    (dOut.done /\ dIn.fn = "combined") =>
        LET t == dIn.tech_score
            n == dIn.news_score
            raw == 6 * t + 4 * n
        IN  /\ dOut.value = IF raw < 0 THEN 0
                            ELSE IF raw > 10000 THEN 10000 ELSE raw
            /\ (t = 1000 /\ n = 1000) => dOut.value = 10000
            /\ (t = 0 /\ n = 0) => dOut.value = 0
            /\ (t = 500 /\ n = 500) => dOut.value = 5000

\* the combined score of a technical score of 25.5 and a news score of 50
C14_CombinedOfUnequalScores ==
    /\ dOut.done
    /\ dIn.fn = "combined"
    /\ dIn.tech_score = 255
    /\ dIn.news_score = 500
    /\ dOut.value = 3530

C16_NoHeldSymbolReturned ==
    (dIn.fn = "top3" /\ dOut.pc = "done") =>
        \A i \in 1 .. Len(dOut.result) : dOut.result[i].ticker \notin dIn.held

\* C17: a returned candidate classified SCALP passes the scalp gates with a
\* combined score of at least 75; one classified SWING has a combined score
\* of at least 70 with sentiment, of at least 62 without.
C17_ReturnedMeetThreshold ==
    (dIn.fn = "top3" /\ dOut.pc = "done") =>
        \A i \in 1 .. Len(dOut.result) :
            LET c == dOut.result[i]
            IN  /\ c.strategy = "SCALP"
                     => (c.scalp_conditions_pass /\ c.combined_score >= 7500)
                /\ c.strategy = "SWING"
                     => c.combined_score
                          >= (IF c.news_available THEN 7000 ELSE 6200)

\* C18: get_top3 returns at most 3 candidates, every SCALP one before every
\* other one, equal classes in non-increasing combined_score order, and no
\* shortlisted candidate left out would sort before a returned one.
C18_TopThreeRanked ==
    (dIn.fn = "top3" /\ dOut.pc = "done") =>
        LET r == dOut.result
            Class(c) == IF c.strategy = "SCALP" THEN 1 ELSE 0
            Before(a, b) ==
                \/ Class(a) > Class(b)
                \/ Class(a) = Class(b) /\ a.combined_score > b.combined_score
            left_out ==
                {Candidate(dOut.top20[i].ticker, dOut.top20[i].tech_score,
                           dIn.symbols[dOut.top20[i].ticker]) :
                    i \in {j \in 1 .. Len(dOut.top20) :
                              \A k \in 1 .. Len(r) :
                                  r[k].ticker # dOut.top20[j].ticker}}
        IN  /\ Len(r) <= 3
            /\ Len(r) = 3 \/ Len(r) = Len(dOut.top20)
            /\ \A i, j \in 1 .. Len(r) : i < j => ~Before(r[j], r[i])
            /\ \A c \in left_out : \A i \in 1 .. Len(r) : ~Before(c, r[i])

\* three returned out of more, a SCALP candidate ahead of a SWING one with a
\* higher combined score
C18_ScalpAheadOfHigherSwing ==
    /\ dIn.fn = "top3"
    /\ dOut.pc = "done"
    /\ Len(dOut.top20) > 3
    /\ Len(dOut.result) = 3
    /\ dOut.result[1].strategy = "SCALP"
    /\ dOut.result[2].strategy = "SWING"
    /\ dOut.result[2].combined_score > dOut.result[1].combined_score

\* C19: when a provider call fails with a permanent fault (authentication,
\* billing, or status 400/401/403), it is the last call of the analysis, no
\* back-off sleep follows it, and the result is the neutral score (50 on the
\* buy side, 25 on the portfolio side) with news_available = False.
C19_PermanentFaultStopsRetries ==
    dIn.fn = "sentiment" =>
        \A k \in 1 .. Len(dOut.log) :
            (\/ dOut.log[k].kind \in {"authentication", "billing"}
             \/ dOut.log[k].kind # "ok"
                /\ dOut.log[k].status_code \in {400, 401, 403})
            => /\ k = Len(dOut.log)
               /\ dOut.calls = k
               /\ dOut.pc = "done"
               /\ Len(dOut.sleeps) = k - 1
               /\ ~dOut.result.news_available
               /\ dOut.result.score = IF dIn.side = "buy" THEN 500 ELSE 250

\* a portfolio-side analysis whose second call was refused with status 403
C19_ForbiddenOnSecondCall ==
    /\ dIn.fn = "sentiment"
    /\ dIn.side = "sell"
    /\ Len(dOut.log) = 2
    /\ dOut.log[1].kind = "rate_limit"
    /\ dOut.log[2].kind = "forbidden"
    /\ dOut.pc = "done"

\* C20: one sentiment analysis makes at most 3 provider calls and terminates;
\* transient failures are retried after 1 s, then 2 s; a success returns that
\* attempt's result with news_available = True; after a third transient
\* failure the result is the neutral fallback with news_available = False.
C20_BoundedRetries ==
    /\ [](dIn.fn = "sentiment" =>
            LET n == Len(dOut.log)
                Transient(a) == a.kind \in {"bad_json", "rate_limit",
                                            "overloaded", "timeout"}
            IN  /\ dOut.calls = n
                /\ n <= 3
                /\ \A k \in 1 .. n : dOut.log[k] = dIn.answers[k]
                /\ \A k \in 1 .. n - 1 : Transient(dOut.log[k])
                /\ dOut.sleeps \in {<<>>, <<1>>, <<1, 2>>}
                /\ (dOut.pc = "call") => Len(dOut.sleeps) = n
                /\ (n >= 1 /\ dOut.log[n].kind = "ok")
                       => /\ dOut.pc = "done"
                          /\ dOut.result.news_available
                          /\ dOut.result.score = dIn.answers[n].score
                          /\ Len(dOut.sleeps) = n - 1
                /\ (n = 3 /\ Transient(dOut.log[3]))
                       => /\ dOut.pc = "done"
                          /\ dOut.sleeps = <<1, 2>>
                          /\ ~dOut.result.news_available
                          /\ dOut.result.score
                               = IF dIn.side = "buy" THEN 500 ELSE 250)
    /\ <>(dOut.pc = "done")

\* three transient failures in a row on the buy side
C20_ThreeTransientFailures ==
    /\ dIn.fn = "sentiment"
    /\ dIn.side = "buy"
    /\ dOut.pc = "done"
    /\ dOut.calls = 3
    /\ dOut.log[1].kind = "rate_limit"
    /\ dOut.log[2].kind = "timeout"
    /\ dOut.log[3].kind = "overloaded"
    /\ dOut.sleeps = <<1, 2>>

\* C21: when the sell-sentiment of a swing holding is unavailable (no
\* headlines, no API key, provider fault, retries exhausted, symbol missing
\* from the batch result), the decision uses sell_score = 25 and neither
\* news-driven swing rule (HIGH signal with sell-score >= 60, sell-score
\* alone >= 70) fires.
C21_UnavailableNewsNeverSells ==
    (/\ dIn.fn = "swing_news"
     /\ dOut.pc = "decided"
     /\ \/ ~dIn.headlines
        \/ ~dIn.api_key
        \/ dIn.missing
        \/ dOut.log # <<>> /\ dOut.log[Len(dOut.log)].kind # "ok")
    => /\ dOut.news_sell_score = 250
       /\ dOut.rule \notin {4, 5}
       /\ dOut.rule = 0 => dOut.decision = "HOLD"

\* retries exhausted for a holding with one HIGH signal, which is kept
C21_RetriesExhaustedWithHighSignal ==
    /\ dIn.fn = "swing_news"
    /\ dOut.pc = "decided"
    /\ dOut.calls = 3
    /\ dOut.log[3].kind = "rate_limit"
    /\ dIn.high = 1
    /\ dOut.news_sell_score = 250
    /\ dOut.decision = "HOLD"

\* C22: one refresh of a scalp holding at price p applies peak update,
\* breakeven check, trailing check in that order: peak_price = max(previous
\* peak, p); if pnl_pct >= 1.5 and the holding was not locked, it is locked
\* and the stop was set to avg_buy_price before the trailing step; if
\* pnl_pct >= 2.0, trailing is active and the stop is max(stop after the
\* breakeven step, 99% of the new peak).  A refresh that takes an unprotected
\* holding straight to pnl_pct >= 2.0 ends with both flags true and the stop
\* at max(avg_buy_price, 99% of the peak).
C22_RefreshStepOrder ==
    [][(/\ nRuns' = nRuns + 1
        /\ holding.exists
        /\ holding.is_scalp_trade
        /\ ~lastRun'.skipped
        /\ lastRun'.price # 0)
       => LET p == lastRun'.price
              avg == holding.avg_buy_price
              diff == p - avg
              locks == 1000 * diff >= 15 * avg /\ ~holding.breakeven_locked
              trails == 100 * diff >= 2 * avg
              peak == Max(holding.peak_price, p)
              stop1 == IF locks THEN avg ELSE holding.trailing_stop_price
              under_peak == (peak * 99) \div 100
          IN  /\ holding'.peak_price = peak
              /\ locks => holding'.breakeven_locked
              /\ trails => /\ holding'.trailing_stop_active
                           /\ holding'.trailing_stop_price
                                = Max(stop1, under_peak)
              /\ ~trails => holding'.trailing_stop_price = stop1
              /\ (trails /\ ~holding.breakeven_locked
                         /\ ~holding.trailing_stop_active)
                 => /\ holding'.breakeven_locked
                    /\ holding'.trailing_stop_active
                    /\ holding'.trailing_stop_price = Max(avg, under_peak)
      ]_vars

\* the first refresh of a holding bought at 200 finds the price at 204: both
\* protections are taken at once and the stop is 201.96
C22_StraightToTrailing ==
    /\ holding.exists
    /\ holding.is_scalp_trade
    /\ nRuns = 1
    /\ lastRun.price = 204 * PriceScale
    /\ holding.avg_buy_price = 200 * PriceScale
    /\ holding.breakeven_locked
    /\ holding.trailing_stop_active
    /\ 100 * holding.trailing_stop_price = 20196 * PriceScale

\* C23: whenever a scalp holding is breakeven-locked and trailing is not
\* active, its trailing_stop_price equals its current avg_buy_price, after
\* any sequence of refreshes and additional buys.
C23_LockedStopIsAverage ==
    (/\ holding.exists
     /\ holding.is_scalp_trade
     /\ holding.breakeven_locked
     /\ ~holding.trailing_stop_active)
    => holding.trailing_stop_price = holding.avg_buy_price

\* C24: a swing holding never runs the lifecycle machine: no run changes its
\* peak_price, trailing_stop_active, trailing_stop_price, breakeven_locked or
\* trading_days_held, and its decision is never TRAILING_STOP, BREAKEVEN_STOP
\* or TIME_STOP; a scalp holding's decision is never the generic SELL.
C24_SwingHasNoLifecycle ==
    [][(nRuns' = nRuns + 1 /\ holding.exists /\ ~lastRun'.skipped)
       => IF holding.is_scalp_trade
          THEN lastRun'.decision # "SELL"
          ELSE /\ holding'.peak_price = holding.peak_price
               /\ holding'.trailing_stop_active = holding.trailing_stop_active
               /\ holding'.trailing_stop_price = holding.trailing_stop_price
               /\ holding'.breakeven_locked = holding.breakeven_locked
               /\ holding'.trading_days_held = holding.trading_days_held
               /\ lastRun'.decision
                    \notin {"TRAILING_STOP", "BREAKEVEN_STOP", "TIME_STOP"}
      ]_vars

\* a swing holding bought at 200 and refreshed at 206, above every trigger of
\* the lifecycle, with the purchase price still as its peak
C24_SwingAboveTriggers ==
    /\ holding.exists
    /\ ~holding.is_scalp_trade
    /\ lastRun.price = 206 * PriceScale
    /\ holding.current_price = 206 * PriceScale
    /\ holding.avg_buy_price = 200 * PriceScale
    /\ holding.peak_price = 200 * PriceScale
    /\ ~holding.breakeven_locked
    /\ lastRun.decision = "HOLD"

\* C27: whenever trailing is active on a scalp holding, trailing_stop_price
\* is at least peak_price * (1 - SCALP_TRAIL_PCT / 100), after any sequence
\* of refreshes and additional buys.
C27_StopTracksPeak ==
    (holding.exists /\ holding.is_scalp_trade /\ holding.trailing_stop_active)
    => 10000 * holding.trailing_stop_price
         >= (10000 - SCALP_TRAIL_PCT) * holding.peak_price

\* C29: when the price lookup of a holding fails or returns no value, the
\* refresh changes none of its persisted fields (current_price,
\* unrealized_pnl, unrealized_pnl_pct, peak_price, trailing_stop_price,
\* trailing_stop_active, breakeven_locked, trading_days_held), and the other
\* holdings of the run are still refreshed.
C29_FailedLookupChangesNothing ==
    (dIn.fn = "update_prices" /\ dOut.pc = "committed") =>
        \A i \in 1 .. PortfolioSize :
            IF dIn.prices[i] = 0
            THEN \A c \in {"current_price", "unrealized_pnl",
                           "unrealized_pnl_pct", "peak_price",
                           "trailing_stop_price", "trailing_stop_active",
                           "breakeven_locked", "trading_days_held"} :
                     dOut.stored[i][c] = dIn.holdings[i][c]
            ELSE /\ dOut.stored[i].current_price = dIn.prices[i]
                 /\ dOut.stored[i].is_scalp_trade
                    => /\ dOut.stored[i].peak_price >= dIn.prices[i]
                       /\ dOut.stored[i].trading_days_held
                            = dIn.holdings[i].trading_days_held + 1

\* the lookup of the first holding failed and the second holding, a scalp
\* position, was refreshed at 204
C29_SecondRefreshedAfterFailure ==
    /\ dIn.fn = "update_prices"
    /\ dOut.pc = "committed"
    /\ dIn.prices[1] = 0
    /\ dIn.prices[2] = 204 * PriceScale
    /\ dIn.holdings[2].is_scalp_trade
    /\ ~dIn.holdings[2].trailing_stop_active
    /\ dOut.stored[2].trailing_stop_active
    /\ dOut.stored[1] = dIn.holdings[1]

\* C28: the sell ladder decides on the exact pnl_pct = (current_price -
\* avg_buy_price) / avg_buy_price * 100: a scalp STOP_LOSS is emitted only
\* when it is <= stop_loss_pct and a TAKE_PROFIT only when it is >=
\* take_profit_pct, so rounding to 2 decimals never changes the rule.
C28_LadderOnExactPnl ==
    (/\ holding.exists
     /\ holding.is_scalp_trade
     /\ nRuns >= 1
     /\ ~lastRun.skipped
     /\ lastRun.price # 0)
    => LET exact == Pct((lastRun.price - holding.avg_buy_price) * 100,
                        holding.avg_buy_price)
       IN  /\ lastRun.decision = "STOP_LOSS"
                => PctLE(exact, SCALP_STOP_LOSS_PCT)
           /\ lastRun.decision = "TAKE_PROFIT"
                => PctGE(exact, SCALP_TAKE_PROFIT_PCT)

\* C26: in the output of detect_bearish_signals every HIGH signal precedes
\* every MEDIUM signal, signals of equal severity keep their detection order,
\* count is the length of the list and high_severity_count the number of
\* HIGH entries.
C26_BearishSignalsOrdered ==
    (dOut.done /\ dIn.fn = "bearish") =>
        LET out == dOut.value
            s == out.signals
            detection == <<"MACD_DEATH_CROSS", "MACD_BEARISH", "RSI_OVERBOUGHT",
                           "BELOW_MA20", "BELOW_MA50", "DEATH_CROSS_50_200",
                           "BB_LOWER_BREAK", "HIGH_VOLUME_DECLINE">>
            Rank(type) == CHOOSE k \in 1 .. Len(detection) : detection[k] = type
        IN  /\ \A i \in 1 .. Len(s), j \in 1 .. Len(s) :
                   i < j =>
                       /\ ~(s[i].severity = "MEDIUM" /\ s[j].severity = "HIGH")
                       /\ s[i].severity = s[j].severity
                              => Rank(s[i].type) < Rank(s[j].type)
            /\ out.count = Len(s)
            /\ out.high_severity_count
                 = Cardinality({i \in 1 .. Len(s) : s[i].severity = "HIGH"})
            /\ \A i \in 1 .. Len(s) : s[i].severity \in {"HIGH", "MEDIUM"}

\* two MEDIUM signals detected before two HIGH signals, which come out first
C26_HighMovedAheadOfMedium ==
    /\ dOut.done
    /\ dIn.fn = "bearish"
    /\ Len(dOut.value.signals) >= 4
    /\ dOut.value.signals[1].type = "BELOW_MA50"
    /\ dOut.value.signals[2].type = "DEATH_CROSS_50_200"
    /\ dOut.value.signals[3].type = "RSI_OVERBOUGHT"
    /\ dOut.value.signals[4].type = "BELOW_MA20"
    /\ dOut.value.high_severity_count = 2

\* C25: at every moment at most 30 technical analyses are in flight in
\* score_batch, at most 5 sentiment analyses in analyze_batch and at most 3
\* in analyze_batch_for_portfolio, and every submitted symbol is eventually
\* analysed.
C25_FanOutBounded ==
    /\ [](dIn.fn = "batch" =>
            /\ InFlight(dOut) <= (CASE dIn.kind = "score_batch" -> 30
                                    [] dIn.kind = "analyze_batch" -> 5
                                    [] OTHER -> 3)
            /\ InFlight(dOut) + Analysed(dOut) = dOut.started
            /\ dOut.started <= dIn.n)
    /\ <>(/\ dOut.pc = "returned"
          /\ dOut.tracked_state = "done"
          /\ dOut.results = dIn.n)

\* a batch of sentiment analyses larger than the semaphore: the followed
\* symbol waits while 5 others are in flight
C25_WaitingBehindFullSemaphore ==
    /\ dIn.fn = "batch"
    /\ dIn.kind = "analyze_batch"
    /\ dOut.pc = "running"
    /\ dOut.tracked_state = "waiting"
    /\ dOut.inflight_others = 5
    /\ dOut.done_others >= 1

\* C30: a run that fires a signal type of which a row of the last 24 hours
\* exists whose alert was never delivered returns the signal again, so that
\* its alert can still go out.
C30_UndeliveredAlertSurfacesAgain ==
    (dOut.pending # {} /\ lastRun.fault = "none")
    => lastRun.decision \in lastRun.signals

====
